---------------------------- MODULE Spec2Model ----------------------------
(***************************************************************************)
(* A model of mqttfs: the kernel bridge and namespace tree (src/fuse.c,    *)
(* src/mqttfs.c), the broker ingress loop (src/mqtt.c, src/mqtt_parser.c)  *)
(* and the remaining-length codec (src/mqtt_impl.c, src/mqtt_parser.c).    *)
(*                                                                         *)
(* Strings are sequences of byte values.  A node is identified by its     *)
(* path from the root (the sequence of the names on the way down); the    *)
(* root is the empty path.  A file handle and a directory handle are      *)
(* identified by small integers standing for the heap addresses the code  *)
(* hands to the kernel.                                                   *)
(***************************************************************************)
EXTENDS Integers, Sequences, FiniteSets, TLC

VARIABLES
  tree,      \* path -> node (struct MqttfsNode), the root included
  handles,   \* fh -> open file handle (struct MqttfsHandle)
  dirh,      \* fh -> directory handle (struct Buffer of dirents)
  out,       \* what the last request wrote to the kernel fd
  stored,    \* topic -> payload of the last publish stored under it
  stream,    \* the bytes the broker sends, in order
  expected,  \* the frames the stream was built from
  pos,       \* how many bytes of the stream the worker has read
  buffer,    \* IoThread's accumulator: the unconsumed tail
  callbacks, \* the (topic, payload) callbacks made so far
  outcomes,  \* the Success / Skipped outcomes so far
  running,   \* mqtt->running
  vn,        \* codec: the length under test
  vphase,    \* codec: "init", "encoded", "decoded"
  vdigits,   \* codec: the digits EncodeLength produced
  vdecoded,  \* codec: what ReadRemainingLength made of them
  now,            \* the monotonic clock, in milliseconds
  cphase,         \* client: "none", "live", "stopping", "destroyed", "failed", "aborted"
  wphase,         \* worker thread: "none", "started", "polling", "exited"
  keepalive,      \* mqtt->keepalive, seconds
  holdback,       \* mqtt->holdback, milliseconds
  last_timestamp, \* mqtt->last_timestamp
  messages,       \* mqtt->messages[0 .. messages_size)
  messages_alloc, \* mqtt->messages_alloc
  pipe,           \* bytes waiting in the self-pipe
  deadline,       \* when the poll the worker sleeps in times out
  wire,           \* the packets written to the broker socket, in order
  accepted,       \* the publishes MqttPublish has accepted, in order
  cout,           \* what the last client call returned
  entries_mutex,  \* context->entries_mutex: "free" or the thread holding it
  entry,          \* the Entry of one file: data and size
  tpc,            \* thread -> where it stands in its handler
  tlocal,         \* thread -> the locals of its handler
  stores,         \* the payloads stored in the entry, in order
  reads,          \* what every READ returned
  subs,           \* the search tree of one directory (node->as_dir.subs)
  visited,        \* the names the last walk handed to its callback
  parse_in,       \* parser: the bytes at *buffer, *size of them
  parse_junk,     \* parser: what a byte past them reads as
  parse_out,      \* parser: what the last MqttParseMessage returned
  nodes,          \* path -> struct Node below context->root_node, the root included
  root_mutex,     \* context->root_mutex: "free" or "held"
  messages_mutex, \* mqtt->messages_mutex as the calls below leave it
  rn_out          \* what the last handler on the nodes returned and did

fsVars == <<tree, handles, dirh, out, stored>>
ioVars == <<stream, expected, pos, buffer, callbacks, outcomes, running>>
vnVars == <<vn, vphase, vdigits, vdecoded>>
clVars == <<now, cphase, wphase, keepalive, holdback, last_timestamp, messages,
            messages_alloc, pipe, deadline, wire, accepted, cout>>
enVars == <<entries_mutex, entry, tpc, tlocal, stores, reads>>
wkVars == <<subs, visited>>
psVars == <<parse_in, parse_junk, parse_out>>
rnVars == <<nodes, root_mutex, messages_mutex, rn_out>>
ndVars == <<wkVars, psVars, rnVars>>
vars == <<tree, handles, dirh, out, stored,
          stream, expected, pos, buffer, callbacks, outcomes, running,
          vn, vphase, vdigits, vdecoded,
          now, cphase, wphase, keepalive, holdback, last_timestamp, messages,
          messages_alloc, pipe, deadline, wire, accepted, cout,
          entries_mutex, entry, tpc, tlocal, stores, reads,
          subs, visited, parse_in, parse_junk, parse_out,
          nodes, root_mutex, messages_mutex, rn_out>>

---------------------------------------------------------------------------
(* Bounds *)

MaxHandles == 2
MaxDirHandles == 1
MaxReadSize == 3
MaxReadOffset == 3
MaxPollHandle == 2
MaxUnique == 2

(* Byte values *)
Slash == 47

(* The topics published and the names used by MKDIR and CREATE: "a", "b" *)
NameA == <<97>>
NameB == <<98>>
Topics == { NameA, NameA \o <<Slash>> \o NameB }
Names == { NameA, NameB }
NodePaths == { <<NameA>>, <<NameA, NameB>> }
Payloads == { <<7>>, <<9, 7>> }
\* request->header.unique: the ids the kernel gives its requests
Uniques == 1 .. MaxUnique
\* The id of the requests of the specifications in which ids play no part
AnyUnique == CHOOSE unique \in Uniques : TRUE

Min(a, b) == IF a < b THEN a ELSE b
Max(a, b) == IF a > b THEN a ELSE b

(* size_t arithmetic.  The modulus stands for 2^64: every size, offset and *)
(* count of the model is far below it, so every comparison comes out as    *)
(* it does at full width.                                                  *)
SizeModulus == 2 ^ 30
SubSizeT(a, b) == (a - b) % SizeModulus

---------------------------------------------------------------------------
(* src/utils.c, src/mqttfs.c: nodes, buffers, handles *)

ROOT == <<>>

IsPrefix(p, q) == Len(p) <= Len(q) /\ SubSeq(q, 1, Len(p)) = p

Children(t, p) == { q \in DOMAIN t : Len(q) = Len(p) + 1 /\ IsPrefix(p, q) }

Subtree(t, p) == { q \in DOMAIN t : IsPrefix(p, q) }

Restrict(f, S) == [x \in S |-> f[x]]

\* CreateNode: calloc, so no children, no payload, no handles, not a directory
MqttfsNodeCreate ==
  [present_as_dir |-> FALSE, data |-> <<>>, alloc |-> 0, handles |-> <<>>]

IsDirectory(t, p) == t[p].present_as_dir \/ Children(t, p) # {}

\* A BufferAssign that reserves the block but leaves the old bytes in it
BufferAssignStale(node, data) ==
  [node EXCEPT !.alloc = IF Len(data) > node.alloc THEN Len(data) ELSE node.alloc]

\* BufferAssign: a new block only when the payload outgrows the old one
BufferAssignGrows(node, data) == Len(data) > node.alloc

BufferAssign(node, data) ==
  [node EXCEPT !.data = data,
               !.alloc = IF Len(data) > node.alloc THEN Len(data) ELSE node.alloc]

GetNodeAttr(t, p) ==
  [ino |-> p, size |-> Len(t[p].data),
   mode |-> IF IsDirectory(t, p) THEN "S_IFDIR" ELSE "S_IFREG"]


\* fuse.c:170-174: memchr for the first '/', 0 when there is none
Memchr(s, c) ==
  IF \E i \in 1..Len(s) : s[i] = c
  THEN CHOOSE i \in 1..Len(s) : s[i] = c /\ \A j \in 1..(i - 1) : s[j] # c
  ELSE 0

\* The components of a path as the kernel walks them, one LOOKUP each
RECURSIVE Split(_)
Split(s) ==
  LET sep == Memchr(s, Slash)
  IN IF sep = 0 THEN <<s>>
     ELSE <<SubSeq(s, 1, sep - 1)>> \o Split(SubSeq(s, sep + 1, Len(s)))

\* A rollback that leaves the child created by the failed call in the tree
RollbackKeepsChild(t, child) == t

\* fuse.c:197-201: tdelete of the child this call created, then
\* MqttfsNodeDestroy, which frees the child and everything below it
RollbackChild(t, child) == Restrict(t, DOMAIN t \ Subtree(t, child))

\* RecurseStore.  failAt = 0: every allocation succeeds; failAt = k: the
\* allocation made at recursion level k fails (levels 1..n create the child
\* of that level, level n+1 is BufferAssign's malloc at the leaf).
RECURSIVE RecurseStore(_, _, _, _, _)
RecurseStore(t, node, pathname, data, failAt) ==
  IF Len(pathname) = 0
  THEN IF failAt = Len(node) + 1 /\ BufferAssignGrows(t[node], data)
       THEN [ok |-> FALSE, tree |-> t, node |-> node]
       ELSE [ok |-> TRUE,
             tree |-> [t EXCEPT ![node] = BufferAssign(t[node], data)],
             node |-> node]
  ELSE LET separator == Memchr(pathname, Slash)
           name_size == IF separator # 0 THEN separator - 1 ELSE Len(pathname)
           name == SubSeq(pathname, 1, name_size)
           child == Append(node, name)
           child_created == child \notin DOMAIN t
       IN IF child_created /\ failAt = Len(node) + 1
          THEN [ok |-> FALSE, tree |-> t, node |-> node]
          ELSE LET t1 == IF child_created
                         THEN [q \in DOMAIN t \cup {child} |->
                                 IF q = child THEN MqttfsNodeCreate ELSE t[q]]
                         ELSE t
                   next_topic == IF separator # 0
                                 THEN SubSeq(pathname, name_size + 2, Len(pathname))
                                 ELSE <<>>
                   result == RecurseStore(t1, child, next_topic, data, failAt)
               IN IF ~result.ok /\ child_created
                  THEN [ok |-> FALSE,
                        tree |-> RollbackChild(result.tree, child),
                        node |-> node]
                  ELSE result

\* CreateHandle: the new handle goes to the tail of the node's list
MqttfsHandleCreate(p) == [node |-> p, updated |-> FALSE, poll_handle |-> 0]

FreeHandles == (1..MaxHandles) \ DOMAIN handles
FreeDirHandles == (1..MaxDirHandles) \ DOMAIN dirh

Remove(s, x) == SelectSeq(s, LAMBDA y : y # x)

SeqToSet(s) == { s[i] : i \in 1..Len(s) }

\* DestroyNode (mqttfs.c:56-67): frees the handles of the node and of every
\* node below it
DestroyedHandles(t, p) == UNION { SeqToSet(t[q].handles) : q \in Subtree(t, p) }

---------------------------------------------------------------------------
(* src/fuse.c: directory entries *)

FuseDirentHeader == 24
FuseDirentAlign(x) == ((x + 7) \div 8) * 8
FuseDirentSize(namelen) == FuseDirentAlign(FuseDirentHeader + namelen)

ParentSentinel == <<<<0>>>>   \* ~0ull, the ino of ".."
Dot == <<46>>
DotDot == <<46, 46>>

\* AppendDirent: off is the size of the buffer with this entry in it
AppendDirent(buf, node, type, name) ==
  LET size == (IF Len(buf) = 0 THEN 0 ELSE buf[Len(buf)].off)
              + FuseDirentSize(Len(name))
  IN Append(buf, [ino |-> node, off |-> size, namelen |-> Len(name),
                  type |-> type, name |-> name])

BufferSize(buf) == IF Len(buf) = 0 THEN 0 ELSE buf[Len(buf)].off

\* CollectDirents over twalk: one dirent per child, in the order of the walk
RECURSIVE CollectDirents(_, _, _)
CollectDirents(buf, t, order) ==
  IF Len(order) = 0 THEN buf
  ELSE CollectDirents(
         AppendDirent(buf, order[1],
                      IF IsDirectory(t, order[1]) THEN "S_IFDIR" ELSE "S_IFREG",
                      order[1][Len(order[1])]),
         t, Tail(order))

\* twalk visits each member of node->children once (preorder and leaf
\* visits); the order is that of the search tree, which libc shapes
WalkOrders(S) ==
  { o \in [1..Cardinality(S) -> S] : \A x \in S : \E i \in DOMAIN o : o[i] = x }

\* OnFuseOpendir:409-424
Snapshot(t, p, order) ==
  CollectDirents(
    AppendDirent(AppendDirent(<<>>, p, "S_IFDIR", Dot),
                 ParentSentinel, "S_IFDIR", DotDot),
    t, order)

\* The entry that starts at byte offset off, 0 when none does
EntryAt(buf, off) ==
  IF \E i \in 1..Len(buf) : (IF i = 1 THEN 0 ELSE buf[i - 1].off) = off
  THEN CHOOSE i \in 1..Len(buf) : (IF i = 1 THEN 0 ELSE buf[i - 1].off) = off
  ELSE 0

\* OnFuseReaddir:453-459: the offset the loop stops at
RECURSIVE ReaddirLoop(_, _, _)
ReaddirLoop(buf, offset, size) ==
  IF offset < BufferSize(buf)
  THEN LET dirent == buf[EntryAt(buf, offset)]
           next_offset == offset + FuseDirentSize(dirent.namelen)
       IN IF next_offset - offset > size THEN offset
          ELSE ReaddirLoop(buf, next_offset, size)
  ELSE offset

\* A READDIR that walks the live children instead of the handle's buffer
ReaddirLive(fh, node) ==
  IF node \in DOMAIN tree
  THEN Snapshot(tree, node, CHOOSE o \in WalkOrders(Children(tree, node)) : TRUE)
  ELSE <<>>

\* OnFuseReaddir:453-465: the entries in [request offset, stop offset)
ReaddirReply(buf, offset, size) ==
  LET stop == ReaddirLoop(buf, offset, size)
  IN IF stop = offset THEN <<>>
     ELSE SubSeq(buf, EntryAt(buf, offset),
                 CHOOSE i \in 1..Len(buf) : buf[i].off = stop)

\* OnFuseReaddir:447: the buffer the request's fh points to
ReaddirBuffer(fh, node) == dirh[fh].buffer

OnFuseReaddirReply(fh, node, offset, size) ==
  ReaddirReply(ReaddirBuffer(fh, node), offset, size)

\* The offsets the kernel asks for: 0 or the off of an entry it was given,
\* the last of which is the end of the buffer
ReaddirOffsets(buf) == {0} \cup { buf[i].off : i \in 1..Len(buf) }
ReaddirSizes == { 0, FuseDirentSize(1), 2 * FuseDirentSize(1), 4096 }

---------------------------------------------------------------------------
(* src/fuse.c: READ and the publish fan-out *)

\* OnFuseRead:363-366.  The bytes past the end of the payload are whatever
\* the heap holds there: oob counts them, their values are not modelled.
OnFuseReadReply(fh, offset, size) ==
  LET buf == tree[handles[fh].node].data
      buffer_size == Min(size, SubSizeT(Len(buf), offset))
      inside == IF offset >= Len(buf) THEN <<>>
                ELSE SubSeq(buf, offset + 1, Min(offset + buffer_size, Len(buf)))
  IN [count |-> buffer_size, data |-> inside, oob |-> buffer_size - Len(inside)]

\* A notify loop without the poll_handle test of line 587
NotifyEvery(hs, list) ==
  [handles |-> [h \in DOMAIN hs |->
                  IF h \in SeqToSet(list) THEN [hs[h] EXCEPT !.updated = TRUE] ELSE hs[h]],
   notify |-> [i \in 1..Len(list) |-> [fh |-> list[i], kh |-> hs[list[i]].poll_handle]]]

\* FuseContextWrite:586-595: the handles the loop notifies, in list order
RECURSIVE NotifyLoop(_, _)
NotifyLoop(hs, list) ==
  IF Len(list) = 0 THEN [handles |-> hs, notify |-> <<>>]
  ELSE LET it == list[1]
       IN IF hs[it].poll_handle = 0 THEN NotifyLoop(hs, Tail(list))
          ELSE LET rest == NotifyLoop([hs EXCEPT ![it].updated = TRUE], Tail(list))
               IN [handles |-> rest.handles,
                   notify |-> <<[fh |-> it, kh |-> hs[it].poll_handle]>> \o rest.notify]


---------------------------------------------------------------------------
(* src/fuse.c: the requests.  out is the reply (or, for a publish, the      *)
(* notifications) the handler wrote to the kernel fd.                       *)

NoReply ==
  [op |-> "none", error |-> "OK", node |-> ROOT, fh |-> 0, mode |-> "",
   count |-> 0, data |-> <<>>, oob |-> 0, ents |-> <<>>, notify |-> <<>>,
   revents |-> {}, topic |-> <<>>, unique |-> 0]

FsInit ==
  /\ tree = [p \in {ROOT} |->
               [present_as_dir |-> TRUE, data |-> <<>>, alloc |-> 0, handles |-> <<>>]]
  /\ handles = <<>>
  /\ dirh = <<>>
  /\ out = NoReply
  /\ stored = <<>>

\* FuseContextWrite: a publish delivered by the broker
FuseContextWrite(pathname, data, failAt) ==
  /\ LET r == RecurseStore(tree, ROOT, pathname, data, failAt)
     IN IF ~r.ok
        THEN /\ tree' = r.tree
             /\ out' = [NoReply EXCEPT !.op = "PUBLISH", !.error = "FAILED",
                                       !.topic = pathname]
             /\ UNCHANGED <<handles, dirh, stored>>
        ELSE LET n == NotifyLoop(handles, r.tree[r.node].handles)
             IN /\ tree' = r.tree
                /\ handles' = n.handles
                /\ out' = [NoReply EXCEPT !.op = "PUBLISH", !.node = r.node,
                                          !.topic = pathname, !.data = data,
                                          !.notify = n.notify]
                /\ stored' = [x \in DOMAIN stored \cup {pathname} |->
                                IF x = pathname THEN data ELSE stored[x]]
                /\ UNCHANGED dirh
  /\ UNCHANGED <<ioVars, vnVars, clVars, enVars, ndVars>>

OnFuseLookup(unique, node, name) ==
  /\ LET child == Append(node, name)
     IN /\ node \in DOMAIN tree
        /\ out' = IF child \notin DOMAIN tree
                  THEN [NoReply EXCEPT !.unique = unique, !.op = "LOOKUP", !.error = "ENOENT"]
                  ELSE [NoReply EXCEPT !.unique = unique, !.op = "LOOKUP", !.node = child,
                                       !.mode = GetNodeAttr(tree, child).mode,
                                       !.count = GetNodeAttr(tree, child).size]
        /\ UNCHANGED <<tree, handles, dirh, stored>>
  /\ UNCHANGED <<ioVars, vnVars, clVars, enVars, ndVars>>

OnFuseGetattr(unique, node) ==
  /\ node \in DOMAIN tree
  /\ out' = [NoReply EXCEPT !.unique = unique, !.op = "GETATTR", !.node = node,
                            !.mode = GetNodeAttr(tree, node).mode,
                            !.count = GetNodeAttr(tree, node).size]
  /\ UNCHANGED <<tree, handles, dirh, stored>>
  /\ UNCHANGED <<ioVars, vnVars, clVars, enVars, ndVars>>

\* A test that takes every name for a fresh one
ChildNeverExists(t, child) == FALSE

\* fuse.c:207-214: tsearch hands back the node already stored under the
\* name, if there is one
ChildExists(t, child) == child \in DOMAIN t

\* CreateChildNode.  failAt: 0 no allocation fails, 1 tsearch or
\* MqttfsNodeCreate fails, 2 MqttfsHandleCreate fails (CREATE only)
CreateChildNode(op, node, unique, name, present_as_dir, failAt) ==
  /\ LET child == Append(node, name)
         fh == CHOOSE h \in FreeHandles : \A g \in FreeHandles : h <= g
     IN /\ node \in DOMAIN tree
        /\ IsDirectory(tree, node)
        /\ child \in NodePaths
        /\ present_as_dir \/ FreeHandles # {}
        /\ IF ChildExists(tree, child)
           THEN /\ out' = [NoReply EXCEPT !.unique = unique, !.op = op, !.error = "EEXIST"]
                /\ UNCHANGED <<tree, handles>>
           ELSE IF failAt = 1 \/ (failAt = 2 /\ ~present_as_dir)
           THEN /\ out' = [NoReply EXCEPT !.unique = unique, !.op = op, !.error = "ENOMEM"]
                /\ UNCHANGED <<tree, handles>>
           ELSE IF present_as_dir
           THEN /\ tree' = [q \in DOMAIN tree \cup {child} |->
                              IF q = child
                              THEN [MqttfsNodeCreate EXCEPT !.present_as_dir = TRUE]
                              ELSE tree[q]]
                /\ out' = [NoReply EXCEPT !.unique = unique, !.op = op, !.node = child, !.mode = "S_IFDIR"]
                /\ UNCHANGED handles
           ELSE /\ tree' = [q \in DOMAIN tree \cup {child} |->
                              IF q = child
                              THEN [MqttfsNodeCreate EXCEPT !.handles = <<fh>>]
                              ELSE tree[q]]
                /\ handles' = [h \in DOMAIN handles \cup {fh} |->
                                 IF h = fh THEN MqttfsHandleCreate(child) ELSE handles[h]]
                /\ out' = [NoReply EXCEPT !.unique = unique, !.op = op, !.node = child, !.fh = fh,
                                          !.mode = "S_IFREG"]
        /\ UNCHANGED <<dirh, stored>>
  /\ UNCHANGED <<ioVars, vnVars, clVars, enVars, ndVars>>

OnFuseMkdir(unique, node, name, failAt) ==
  CreateChildNode("MKDIR", node, unique, name, TRUE, failAt)

OnFuseCreate(unique, node, name, failAt) ==
  CreateChildNode("CREATE", node, unique, name, FALSE, failAt)

\* An UNLINK that replies 0 and leaves the child where it is
DetachNothing(t, child) == t

\* fuse.c:326-328: tdelete of the child, then MqttfsNodeDestroy, which
\* frees the child and everything below it
DetachChild(t, child) == Restrict(t, DOMAIN t \ Subtree(t, child))

\* OnFuseUnlink, which serves UNLINK and RMDIR
OnFuseUnlink(unique, node, name) ==
  /\ LET child == Append(node, name)
         freed == DestroyedHandles(tree, child)
     IN /\ node \in DOMAIN tree
        /\ IF child \notin DOMAIN tree
           THEN /\ out' = [NoReply EXCEPT !.unique = unique, !.op = "UNLINK", !.error = "ENOENT"]
                /\ UNCHANGED <<tree, handles, stored>>
           ELSE /\ tree' = DetachChild(tree, child)
                /\ handles' = Restrict(handles, DOMAIN handles \ freed)
                /\ stored' = Restrict(stored,
                               { x \in DOMAIN stored : ~IsPrefix(child, Split(x)) })
                /\ out' = [NoReply EXCEPT !.unique = unique, !.op = "UNLINK"]
        /\ UNCHANGED dirh
  /\ UNCHANGED <<ioVars, vnVars, clVars, enVars, ndVars>>

OnFuseOpen(unique, node, fail) ==
  /\ LET fh == CHOOSE h \in FreeHandles : \A g \in FreeHandles : h <= g
     IN /\ node \in DOMAIN tree
        /\ ~IsDirectory(tree, node)
        /\ FreeHandles # {}
        /\ IF fail
           THEN /\ out' = [NoReply EXCEPT !.unique = unique, !.op = "OPEN", !.error = "ENOMEM"]
                /\ UNCHANGED <<tree, handles>>
           ELSE /\ handles' = [h \in DOMAIN handles \cup {fh} |->
                                 IF h = fh THEN MqttfsHandleCreate(node) ELSE handles[h]]
                /\ tree' = [tree EXCEPT ![node].handles = Append(@, fh)]
                /\ out' = [NoReply EXCEPT !.unique = unique, !.op = "OPEN", !.fh = fh]
        /\ UNCHANGED <<dirh, stored>>
  /\ UNCHANGED <<ioVars, vnVars, clVars, enVars, ndVars>>

OnFuseRead(unique, fh, offset, size) ==
  /\ LET r == OnFuseReadReply(fh, offset, size)
     IN /\ fh \in DOMAIN handles
        /\ out' = [NoReply EXCEPT !.unique = unique, !.op = "READ", !.fh = fh, !.count = r.count,
                                  !.data = r.data, !.oob = r.oob]
        /\ UNCHANGED <<tree, handles, dirh, stored>>
  /\ UNCHANGED <<ioVars, vnVars, clVars, enVars, ndVars>>

\* OnFuseRelease: DestroyHandle takes the handle out of its node's list
OnFuseRelease(unique, fh) ==
  /\ fh \in DOMAIN handles
  /\ tree' = [tree EXCEPT ![handles[fh].node].handles = Remove(@, fh)]
  /\ handles' = Restrict(handles, DOMAIN handles \ {fh})
  /\ out' = [NoReply EXCEPT !.unique = unique, !.op = "RELEASE"]
  /\ UNCHANGED <<dirh, stored>>
  /\ UNCHANGED <<ioVars, vnVars, clVars, enVars, ndVars>>

OnFuseOpendir(unique, node, order, fail) ==
  /\ LET fh == CHOOSE h \in FreeDirHandles : \A g \in FreeDirHandles : h <= g
     IN /\ node \in DOMAIN tree
        /\ IsDirectory(tree, node)
        /\ FreeDirHandles # {}
        /\ order \in WalkOrders(Children(tree, node))
        /\ IF fail
           THEN /\ out' = [NoReply EXCEPT !.unique = unique, !.op = "OPENDIR", !.error = "ENOMEM"]
                /\ UNCHANGED dirh
           ELSE /\ dirh' = [h \in DOMAIN dirh \cup {fh} |->
                              IF h = fh
                              THEN [node |-> node, buffer |-> Snapshot(tree, node, order)]
                              ELSE dirh[h]]
                /\ out' = [NoReply EXCEPT !.unique = unique, !.op = "OPENDIR", !.fh = fh]
        /\ UNCHANGED <<tree, handles, stored>>
  /\ UNCHANGED <<ioVars, vnVars, clVars, enVars, ndVars>>

OnFuseReaddir(unique, fh, offset, size) ==
  /\ fh \in DOMAIN dirh
  /\ offset \in ReaddirOffsets(dirh[fh].buffer)
  /\ out' = [NoReply EXCEPT !.unique = unique, !.op = "READDIR", !.fh = fh,
                            !.ents = OnFuseReaddirReply(fh, dirh[fh].node, offset, size)]
  /\ UNCHANGED <<tree, handles, dirh, stored>>
  /\ UNCHANGED <<ioVars, vnVars, clVars, enVars, ndVars>>

OnFuseReleasedir(unique, fh) ==
  /\ fh \in DOMAIN dirh
  /\ dirh' = Restrict(dirh, DOMAIN dirh \ {fh})
  /\ out' = [NoReply EXCEPT !.unique = unique, !.op = "RELEASEDIR"]
  /\ UNCHANGED <<tree, handles, stored>>
  /\ UNCHANGED <<ioVars, vnVars, clVars, enVars, ndVars>>

\* OnFusePoll.  events is the set of the POLL* bits asked for, schedule is
\* flags & FUSE_POLL_SCHEDULE_NOTIFY
OnFusePoll(unique, fh, kh, schedule, events) ==
  /\ LET handle == handles[fh]
         pollin == "POLLIN" \in events
         poll_handle == IF pollin /\ schedule THEN kh ELSE handle.poll_handle
         readable == pollin /\ handle.updated
     IN /\ fh \in DOMAIN handles
        /\ handles' = [handles EXCEPT ![fh] =
                         [handle EXCEPT !.poll_handle = poll_handle,
                                        !.updated = IF readable THEN FALSE ELSE @]]
        /\ out' = [NoReply EXCEPT !.unique = unique, !.op = "POLL", !.fh = fh,
                     !.revents = (events \cap {"POLLOUT"})
                                 \cup (IF readable THEN {"POLLIN"} ELSE {})]
        /\ UNCHANGED <<tree, dirh, stored>>
  /\ UNCHANGED <<ioVars, vnVars, clVars, enVars, ndVars>>

\* fuse.c:544-560: the handler table of FuseContextHandle, indexed by the
\* opcode (the numbers of linux/fuse.h); "" is a slot the initializer leaves
\* empty, WRITE (16) among them
fuse_request_handlers ==
  [opcode \in 0 .. 40 |->
     CASE opcode = 1 -> "OnFuseLookup"
       [] opcode = 2 -> "OnFuseForget"
       [] opcode = 3 -> "OnFuseGetattr"
       [] opcode = 9 -> "OnFuseMkdir"
       [] opcode = 10 -> "OnFuseUnlink"
       [] opcode = 11 -> "OnFuseUnlink"
       [] opcode = 14 -> "OnFuseOpen"
       [] opcode = 15 -> "OnFuseRead"
       [] opcode = 18 -> "OnFuseRelease"
       [] opcode = 26 -> "OnFuseInit"
       [] opcode = 27 -> "OnFuseOpendir"
       [] opcode = 28 -> "OnFuseReaddir"
       [] opcode = 29 -> "OnFuseReleasedir"
       [] opcode = 35 -> "OnFuseCreate"
       [] opcode = 40 -> "OnFusePoll"
       [] OTHER -> ""]

\* The opcodes of the requests: those with a handler, three empty slots
\* (0, SETATTR and WRITE) and one past the end of the table
Opcodes ==
  { opcode \in DOMAIN fuse_request_handlers : fuse_request_handlers[opcode] # "" }
    \cup {0, 4, 16, 41}

\* A selection that takes FORGET's handler for every opcode without one
ForgetUnknown(opcode) ==
  IF opcode \in DOMAIN fuse_request_handlers /\ fuse_request_handlers[opcode] # ""
  THEN fuse_request_handlers[opcode]
  ELSE "OnFuseForget"

\* fuse.c:562-566: the handler FuseContextHandle selects
RequestHandler(opcode) ==
  IF opcode \in DOMAIN fuse_request_handlers /\ fuse_request_handlers[opcode] # ""
  THEN fuse_request_handlers[opcode]
  ELSE "OnFuseUnknown"

\* fuse.c:254-260
OnFuseUnknown(unique) ==
  /\ out' = [NoReply EXCEPT !.unique = unique, !.op = "UNKNOWN", !.error = "ENOSYS"]
  /\ UNCHANGED <<tree, handles, dirh, stored>>
  /\ UNCHANGED <<ioVars, vnVars, clVars, enVars, ndVars>>

\* fuse.c:279-288: FORGET is not answered
OnFuseForget(unique) ==
  /\ out' = NoReply
  /\ UNCHANGED <<tree, handles, dirh, stored>>
  /\ UNCHANGED <<ioVars, vnVars, clVars, enVars, ndVars>>

\* fuse.c:381-393
OnFuseInit(unique) ==
  /\ out' = [NoReply EXCEPT !.unique = unique, !.op = "INIT"]
  /\ UNCHANGED <<tree, handles, dirh, stored>>
  /\ UNCHANGED <<ioVars, vnVars, clVars, enVars, ndVars>>

\* fuse.c:530-571: one request read from the kernel fd and handed to its
\* handler; the fields of the request other than opcode and unique are
\* drawn here (a failing read of the fd hands over no request and is left
\* out)
FuseContextHandle(opcode, unique) ==
  LET request_handler == RequestHandler(opcode)
  IN CASE request_handler = "OnFuseUnknown" -> OnFuseUnknown(unique)
       [] request_handler = "OnFuseForget" -> OnFuseForget(unique)
       [] request_handler = "OnFuseInit" -> OnFuseInit(unique)
       [] request_handler = "OnFuseLookup" ->
            \E name \in Names : OnFuseLookup(unique, ROOT, name)
       [] request_handler = "OnFuseGetattr" ->
            OnFuseGetattr(unique, ROOT)
       [] request_handler = "OnFuseMkdir" ->
            \E failAt \in 0..1 : OnFuseMkdir(unique, ROOT, NameA, failAt)
       [] request_handler = "OnFuseCreate" ->
            \E node \in DOMAIN tree, failAt \in 0..2 :
              OnFuseCreate(unique, node, NameB, failAt)
       [] request_handler = "OnFuseUnlink" ->
            \E node \in DOMAIN tree :
              OnFuseUnlink(unique, node, IF node = ROOT THEN NameA ELSE NameB)
       [] request_handler = "OnFuseOpen" ->
            \E node \in DOMAIN tree, fail \in BOOLEAN : OnFuseOpen(unique, node, fail)
       [] request_handler = "OnFuseRead" ->
            \E fh \in DOMAIN handles : OnFuseRead(unique, fh, 0, MaxReadSize)
       [] request_handler = "OnFuseRelease" ->
            \E fh \in DOMAIN handles : OnFuseRelease(unique, fh)
       [] request_handler = "OnFuseOpendir" ->
            \E fail \in BOOLEAN :
              \E order \in WalkOrders(Children(tree, ROOT)) :
                OnFuseOpendir(unique, ROOT, order, fail)
       [] request_handler = "OnFuseReaddir" ->
            \E fh \in DOMAIN dirh : OnFuseReaddir(unique, fh, 0, 4096)
       [] request_handler = "OnFuseReleasedir" ->
            \E fh \in DOMAIN dirh : OnFuseReleasedir(unique, fh)
       [] request_handler = "OnFusePoll" ->
            \E fh \in DOMAIN handles :
              OnFusePoll(unique, fh, MaxPollHandle, FALSE, {"POLLIN", "POLLOUT"})

\* The requests that change the tree, common to every specification below
TreeNext ==
  \/ \E t \in Topics, d \in Payloads, failAt \in 0..3 : FuseContextWrite(t, d, failAt)
  \/ \E node \in DOMAIN tree, name \in Names, failAt \in 0..1 :
       OnFuseMkdir(AnyUnique, node, name, failAt)
  \/ \E node \in DOMAIN tree, name \in Names, failAt \in 0..2 :
       OnFuseCreate(AnyUnique, node, name, failAt)
  \/ \E node \in DOMAIN tree, name \in Names : OnFuseUnlink(AnyUnique, node, name)
  \/ \E fh \in DOMAIN handles : OnFuseRelease(AnyUnique, fh)

\* Topics as the parser hands them over, any bytes: "/a", "a/", "a//b"
\* next to "a/b"
OddTopics ==
  { <<Slash>> \o NameA, NameA \o <<Slash>>,
    NameA \o <<Slash, Slash>> \o NameB, NameA \o <<Slash>> \o NameB }

\* Publishes of such topics next to MKDIR, CREATE and UNLINK
OddNext ==
  \/ \E t \in OddTopics, d \in Payloads : FuseContextWrite(t, d, 0)
  \/ \E node \in DOMAIN tree, name \in Names : OnFuseMkdir(AnyUnique, node, name, 0)
  \/ \E node \in DOMAIN tree, name \in Names : OnFuseCreate(AnyUnique, node, name, 0)
  \/ \E node \in DOMAIN tree, name \in Names : OnFuseUnlink(AnyUnique, node, name)

\* Files: LOOKUP, GETATTR, OPEN and READ next to the tree requests
FsNext ==
  \/ TreeNext
  \/ \E node \in DOMAIN tree, name \in Names : OnFuseLookup(AnyUnique, node, name)
  \/ \E node \in DOMAIN tree : OnFuseGetattr(AnyUnique, node)
  \/ \E node \in DOMAIN tree, fail \in BOOLEAN : OnFuseOpen(AnyUnique, node, fail)
  \/ \E fh \in DOMAIN handles, offset \in 0..MaxReadOffset, size \in 0..MaxReadSize :
       OnFuseRead(AnyUnique, fh, offset, size)

\* Nodes: the tree requests, LOOKUP and OPEN, with publishes to the topic
\* "b" next to "a" and "a/b"
NodesNext ==
  \/ TreeNext
  \/ \E d \in Payloads, failAt \in 0..2 : FuseContextWrite(NameB, d, failAt)
  \/ \E node \in DOMAIN tree, name \in Names : OnFuseLookup(AnyUnique, node, name)
  \/ \E node \in DOMAIN tree, fail \in BOOLEAN : OnFuseOpen(AnyUnique, node, fail)

\* Directories: OPENDIR, READDIR and RELEASEDIR next to the tree requests
DirNext ==
  \/ TreeNext
  \/ \E node \in DOMAIN tree, fail \in BOOLEAN :
       \E order \in WalkOrders(Children(tree, node)) : OnFuseOpendir(AnyUnique, node, order, fail)
  \/ \E fh \in DOMAIN dirh, size \in ReaddirSizes :
       \E offset \in ReaddirOffsets(dirh[fh].buffer) : OnFuseReaddir(AnyUnique, fh, offset, size)
  \/ \E fh \in DOMAIN dirh : OnFuseReleasedir(AnyUnique, fh)

\* Dispatch: every request goes through FuseContextHandle
DispatchNext ==
  \/ \E opcode \in Opcodes, unique \in Uniques : FuseContextHandle(opcode, unique)
  \/ FuseContextWrite(NameA \o <<Slash>> \o NameB, <<7>>, 0)

\* Polling: OPEN and POLL next to the tree requests
PollNext ==
  \/ TreeNext
  \/ \E node \in DOMAIN tree, fail \in BOOLEAN : OnFuseOpen(AnyUnique, node, fail)
  \/ \E fh \in DOMAIN handles, kh \in 1..MaxPollHandle, schedule \in BOOLEAN,
        events \in SUBSET {"POLLIN", "POLLOUT"} : OnFusePoll(AnyUnique, fh, kh, schedule, events)

---------------------------------------------------------------------------
(* src/mqtt_impl.c, src/mqtt_parser.c: the remaining-length codec *)

MaxRemainingLength == 268435455

\* An EncodeLength without the continuation bit of line 42
RECURSIVE EncodeLengthPlain(_)
EncodeLengthPlain(length) ==
  IF length > MaxRemainingLength THEN <<>>
  ELSE IF length \div 128 # 0
       THEN <<length % 128>> \o EncodeLengthPlain(length \div 128)
       ELSE <<length % 128>>

\* EncodeLength: the digits written, none when the length is rejected
\* (the function returns 0)
RECURSIVE EncodeLength(_)
EncodeLength(length) ==
  IF length > MaxRemainingLength THEN <<>>
  ELSE IF length \div 128 # 0
       THEN <<(length % 128) + 128>> \o EncodeLength(length \div 128)
       ELSE <<length % 128>>

\* 128^counter, the weight of 7 * counter bits
RECURSIVE Shift7(_)
Shift7(counter) == IF counter = 0 THEN 1 ELSE 128 * Shift7(counter - 1)

\* ReadRemainingLength with ReadByte inlined: the bytes of buf from index
\* idx on.  next is the index of the first byte after the length.
RECURSIVE ReadRemainingLengthFrom(_, _, _, _)
ReadRemainingLengthFrom(buf, idx, counter, result) ==
  IF counter = 4 THEN [status |-> "Error", value |-> 0, next |-> idx]
  ELSE IF idx > Len(buf) THEN [status |-> "ReadMore", value |-> 0, next |-> idx]
  ELSE LET byte == buf[idx]
           merged == result + (byte % 128) * Shift7(counter)
       IN IF byte < 128
          THEN [status |-> "Success", value |-> merged, next |-> idx + 1]
          ELSE ReadRemainingLengthFrom(buf, idx + 1, counter + 1, merged)

ReadRemainingLength(buf, idx) == ReadRemainingLengthFrom(buf, idx, 0, 0)

---------------------------------------------------------------------------
(* src/mqtt_parser.c, src/mqtt.c: the broker ingress *)

\* The byte at index i of the ingress buffer.  An index past the bytes read
\* so far addresses heap the worker never wrote: junk is what it holds.
ByteAt(buf, i, junk) == IF i <= Len(buf) THEN buf[i] ELSE junk

BytesAt(buf, first, count, junk) == [i \in 1..count |-> ByteAt(buf, first + i - 1, junk)]

\* A parser that steps over the type byte whatever it returns
NoMessageAdvance(status) ==
  [status |-> status, consumed |-> 1, topic |-> <<>>, payload |-> <<>>,
   payload_len |-> 0]

NoMessage(status) ==
  [status |-> status, consumed |-> 0, topic |-> <<>>, payload |-> <<>>,
   payload_len |-> 0]

\* mqtt_parser.c:57: a test of the packet type that takes every frame for
\* a publish
IsPublishAlways(packet_type) == TRUE

\* mqtt_parser.c:57: (packet_type & 0xf0) == 0x30
IsPublish(packet_type) == packet_type \div 16 = 3

\* mqtt_parser.c:71 without the two bytes of the topic length
PayloadLenWhole(remaining_length, topic_len) ==
  (remaining_length - topic_len) % SizeModulus

\* mqtt_parser.c:71: size_t arithmetic
PayloadLen(remaining_length, topic_len) ==
  (remaining_length - 2 - topic_len) % SizeModulus

\* MqttParseMessage on the unconsumed bytes buf: the status, the number of
\* bytes the cursor advances, and the views handed out on Success
MqttParseMessage(buf, junk) ==
  IF Len(buf) = 0 THEN NoMessage("ReadMore")
  ELSE
    LET packet_type == buf[1]
        length == ReadRemainingLength(buf, 2)
        header == length.next - 1
        remaining_length == length.value
        size_copy == Len(buf) - header
    IN IF length.status # "Success" THEN NoMessage(length.status)
       ELSE IF remaining_length > size_copy THEN NoMessage("ReadMore")
       ELSE IF ~IsPublish(packet_type)
       THEN [NoMessage("Skipped") EXCEPT !.consumed = header + remaining_length]
       ELSE
         LET topic_len_copy == ByteAt(buf, header + 1, junk) * 256
                                 + ByteAt(buf, header + 2, junk)
             payload_len == PayloadLen(remaining_length, topic_len_copy)
             payload_at == header + 3 + topic_len_copy
         IN IF topic_len_copy > remaining_length THEN NoMessage("Error")
            ELSE [status |-> "Success",
                  consumed |-> header + remaining_length,
                  topic |-> BytesAt(buf, header + 3, topic_len_copy, junk),
                  payload |-> BytesAt(buf, payload_at,
                                      Min(payload_len, Max(0, Len(buf) - payload_at + 1)),
                                      junk),
                  payload_len |-> payload_len]

\* mqtt.c:234-235 leaving the parsed frames in the buffer
KeepWhole(buf, tail) == buf

\* mqtt.c:234-235: memmove(buffer, tail, tail_size); buffer_size = tail_size
KeepTail(buf, tail) == tail

\* mqtt.c:215-237: the parse loop over the accumulated bytes.  left is what
\* the worker goes on with: running with the tail kept, or not running.
RECURSIVE ParseLoop(_, _, _, _, _)
ParseLoop(buf, tail, junk, cbs, outs) ==
  LET m == MqttParseMessage(tail, junk)
      rest == SubSeq(tail, m.consumed + 1, Len(tail))
  IN CASE m.status = "Success" ->
            ParseLoop(buf, rest, junk,
                      Append(cbs, [topic |-> m.topic, payload |-> m.payload,
                                   payload_len |-> m.payload_len]),
                      Append(outs, "Success"))
       [] m.status = "Skipped" ->
            ParseLoop(buf, rest, junk, cbs, Append(outs, "Skipped"))
       [] m.status = "ReadMore" ->
            [running |-> TRUE, buffer |-> KeepTail(buf, tail),
             callbacks |-> cbs, outcomes |-> outs]
       [] OTHER ->
            [running |-> FALSE, buffer |-> <<>>,
             callbacks |-> cbs, outcomes |-> Append(outs, "Error")]

\* SendPublishMessage: the bytes of one PUBLISH frame, none when
\* EncodeLength rejects the length
SendPublishMessage(topic, payload) ==
  LET length_digits == EncodeLength(2 + Len(topic) + Len(payload))
  IN IF Len(length_digits) = 0 THEN <<>>
     ELSE <<48>> \o length_digits
          \o <<Len(topic) \div 256, Len(topic) % 256>> \o topic \o payload

\* The frames the broker sends.  kind "raw" marks bytes that are no
\* complete frame.
LongPayloadLen == 125
LongPayload == [i \in 1..LongPayloadLen |-> 1]

PublishFrame(topic, payload) ==
  [kind |-> "publish", topic |-> topic, payload |-> payload,
   bytes |-> SendPublishMessage(topic, payload)]

\* The same frame with the RETAIN flag set in the first byte
RetainedFrame(topic, payload) ==
  [PublishFrame(topic, payload) EXCEPT !.bytes[1] = 49]

OtherFrame(bytes) ==
  [kind |-> "other", topic |-> <<>>, payload |-> <<>>, bytes |-> bytes]

RawBytes(bytes) ==
  [kind |-> "raw", topic |-> <<>>, payload |-> <<>>, bytes |-> bytes]

S1Bytes == <<48, 7, 0, 1, 97, 0, 1, 98>>
S1Fixed == <<48, 6, 0, 1, 97, 0, 1, 98>>
S2Bytes == <<32, 2, 0, 0, 48, 4, 0, 1, 120, 121>>

ShortFrames ==
  { PublishFrame(<<97>>, <<0, 1, 98>>), PublishFrame(<<120>>, <<121>>),
    PublishFrame(<<97>>, <<>>), PublishFrame(<<97, 47, 98>>, <<121>>),
    RetainedFrame(<<120>>, <<121>>),
    OtherFrame(<<32, 2, 0, 0>>), OtherFrame(<<208, 0>>),
    OtherFrame(<<144, 3, 0, 1, 0>>) }

\* A frame whose remaining length takes two bytes
LongFrame == PublishFrame(<<120>>, LongPayload)

MaxFrames == 2

\* Up to MaxFrames short frames; the long frame alone, before or after a
\* short one, or twice; and three streams that are no sequence of frames
Streams ==
  UNION { [1..n -> ShortFrames] : n \in 0..MaxFrames }
    \cup { <<LongFrame>>, <<LongFrame, LongFrame>> }
    \cup { <<f, LongFrame>> : f \in ShortFrames }
    \cup { <<LongFrame, f>> : f \in ShortFrames }
    \cup { <<RawBytes(S1Bytes)>>, <<RawBytes(<<48, 0>>)>>,
           <<RawBytes(<<48, 128, 128, 128, 128, 1>>)>> }

RECURSIVE Flatten(_)
Flatten(frames) ==
  IF Len(frames) = 0 THEN <<>> ELSE frames[1].bytes \o Flatten(Tail(frames))

\* What the heap holds past the bytes read
JunkBytes == { 0, 255 }

IdleFs == FsInit

IdleIo ==
  /\ stream = <<>> /\ expected = <<>> /\ pos = 0 /\ buffer = <<>>
  /\ callbacks = <<>> /\ outcomes = <<>> /\ running = FALSE

IngressInit ==
  /\ expected \in Streams
  /\ stream = Flatten(expected)
  /\ pos = 0 /\ buffer = <<>> /\ callbacks = <<>> /\ outcomes = <<>>
  /\ running = TRUE

\* mqtt.c:183-237: one pass of the worker's loop with n bytes readable
IoThreadRead(n, junk) ==
  /\ running
  /\ n \in 1..(Len(stream) - pos)
  /\ LET buf == buffer \o SubSeq(stream, pos + 1, pos + n)
         left == ParseLoop(buf, buf, junk, callbacks, outcomes)
     IN /\ buffer' = left.buffer
        /\ callbacks' = left.callbacks
        /\ outcomes' = left.outcomes
        /\ running' = left.running
  /\ pos' = pos + n
  /\ UNCHANGED <<stream, expected>>
  /\ UNCHANGED <<fsVars, vnVars, clVars, enVars, ndVars>>

\* mqtt.c:207-209, 240-243: read returns 0, the broker has closed
IoThreadClosed ==
  /\ running
  /\ pos = Len(stream)
  /\ running' = FALSE
  /\ buffer' = <<>>
  /\ UNCHANGED <<stream, expected, pos, callbacks, outcomes>>
  /\ UNCHANGED <<fsVars, vnVars, clVars, enVars, ndVars>>

IngressNext ==
  \/ \E n \in 1..(Len(stream) - pos), junk \in JunkBytes : IoThreadRead(n, junk)
  \/ IoThreadClosed

---------------------------------------------------------------------------
(* The codec on its own *)

MaxSmallLength == 32

VarintInputs ==
  (0..MaxSmallLength)
    \cup { 127, 128, 129, 255, 256, 16383, 16384, 16385, 2097151, 2097152,
           2097153, 268435454, 268435455, 268435456, 268435457,
           1073741824, 2147483647 }

NoLength == [status |-> "none", value |-> 0, next |-> 0]

IdleVn == vn = 0 /\ vphase = "idle" /\ vdigits = <<>> /\ vdecoded = NoLength

VarintInit ==
  /\ vn \in VarintInputs
  /\ vphase = "init" /\ vdigits = <<>> /\ vdecoded = NoLength

\* SendPublishMessage:157-159: the length goes through EncodeLength
VarintEncode ==
  /\ vphase = "init"
  /\ vdigits' = EncodeLength(vn)
  /\ vphase' = IF Len(EncodeLength(vn)) = 0 THEN "rejected" ELSE "encoded"
  /\ UNCHANGED <<vn, vdecoded>>
  /\ UNCHANGED <<fsVars, ioVars, clVars, enVars, ndVars>>

\* MqttParseMessage:53-54: the digits, and whatever follows them, go
\* through ReadRemainingLength
VarintDecode(trailing) ==
  /\ vphase = "encoded"
  /\ vdecoded' = ReadRemainingLength(vdigits \o trailing, 1)
  /\ vphase' = "decoded"
  /\ UNCHANGED <<vn, vdigits>>
  /\ UNCHANGED <<fsVars, ioVars, clVars, enVars, ndVars>>

VarintNext ==
  \/ VarintEncode
  \/ \E trailing \in { <<>>, <<0>>, <<255, 255>> } : VarintDecode(trailing)

---------------------------------------------------------------------------
(* src/mqtt.c, src/mqtt_impl.c: the broker client, its queue and worker *)

\* Bounds of the client model
StartClock == 100
TickMs == 300
MaxClock == 2000
MaxPublishes == 3
MaxLifePublishes == 1

\* mqtt.c:139
kPingThreshold == 100

\* Stands for INT64_MAX (mqtt.c:107): later than every time of the model
Int64Max == 2147483647

Keepalives == { 1, 2 }
Holdbacks == { 0, 300 }

Hello == <<72, 69, 76, 76, 79>>

\* What the file system hands to MqttPublish: a topic and a payload
PublishInputs ==
  { [topic |-> NameA \o <<Slash>> \o NameB, payload |-> Hello],
    [topic |-> NameA, payload |-> <<7>>] }

\* The packets of mqtt_impl.c, byte for byte
ConnectMessage(ka) ==
  <<16, 12, 0, 4, 77, 81, 84, 84, 4, 2, ka \div 256, ka % 256, 0, 0>>
SubscribeMessage == <<130, 8, 0, 1, 0, 3, 43, 47, 35, 0>>
PingMessage == <<208, 0>>
DisconnectMessage == <<224, 0>>

\* A ReceiveConnectAck that takes whatever it reads
ReceiveAnyAck(bytes) == TRUE

\* ReceiveConnectAck: four bytes read, 20 02 00 00 and nothing else
ReceiveConnectAck(bytes) == bytes = <<32, 2, 0, 0>>

\* ReceiveSubscribeAck: five bytes read, 90 03, packet id 1, return code 0
ReceiveSubscribeAck(bytes) == bytes = <<144, 3, 0, 1, 0>>

\* What the broker may answer to CONNECT: accepted, refused (return code
\* 5), session present, another packet type, a short read, nothing
ConnAcks ==
  { <<32, 2, 0, 0>>, <<32, 2, 0, 5>>, <<32, 2, 1, 0>>, <<144, 2, 0, 0>>,
    <<32, 2, 0>>, <<>> }

\* What the broker may answer to SUBSCRIBE: granted, another packet id,
\* failure return code, another packet type, a short read
SubAcks ==
  { <<144, 3, 0, 1, 0>>, <<144, 3, 0, 2, 0>>, <<144, 3, 0, 1, 128>>,
    <<32, 3, 0, 1, 0>>, <<144, 3, 0, 1>> }

\* The steps of MqttCreate that can fail on their own
CreateFailures ==
  { "none", "malloc", "clock", "mtx_init", "socket", "pipe", "connect",
    "send_connect", "send_subscribe", "thrd_create" }

\* One write on the broker socket.  id is the place of the message among
\* the accepted publishes, 0 for every other packet.
Packet(bytes, at, id) == [bytes |-> bytes, at |-> at, id |-> id]

IsPing(p) == p.bytes = PingMessage
IsPublishPacket(p) == Len(p.bytes) > 0 /\ p.bytes[1] = 48

\* StrCompare (str.c:48-54): sizes first, then memcmp
StrCompare(a, b) ==
  IF Len(a) # Len(b) THEN (IF Len(a) < Len(b) THEN -1 ELSE 1)
  ELSE IF a = b THEN 0
  ELSE LET i == CHOOSE k \in 1..Len(a) :
                  a[k] # b[k] /\ \A j \in 1..(k - 1) : a[j] = b[j]
       IN IF a[i] < b[i] THEN -1 ELSE 1

\* What a block reads as after free() when the allocator has reused it
JunkLike(s) == [i \in 1..Len(s) |-> 255]

\* The bytes behind the topic and payload pointers of a queue entry.  The
\* pointers of an entry that DrainMessages has freed dangle: reading them
\* is undefined, and ub picks what the build makes of it ("stale": the old
\* bytes are still there, "junk": they are not, "abort": the allocator
\* detects the second free and ends the process).
TopicBytes(m, ub) == IF m.live \/ ub # "junk" THEN m.topic ELSE JunkLike(m.topic)
PayloadBytes(m, ub) == IF m.live \/ ub # "junk" THEN m.payload ELSE JunkLike(m.payload)

UbOutcomes == { "stale", "junk", "abort" }

\* x with its n low-order bytes taken from y (little-endian int64_t); the
\* times of the model are below 256^4
LowBytesFrom(x, y, n) ==
  IF n >= 4 THEN y ELSE (x - (x % (256 ^ n))) + (y % (256 ^ n))

\* mqtt.c:100-103: memmove(messages, messages + counter, messages_size -
\* counter).  The length is a number of bytes, not of entries: the first
\* (messages_size - counter) bytes of entry [counter] land on entry [0],
\* which is the low end of its timestamp; every other byte of the array
\* stays.  The first (messages_size - counter) entries form the new queue,
\* and those of them that were sent keep pointers that have been freed.
MemmoveBytes(msgs, counter) ==
  LET size == Len(msgs) - counter
  IN [i \in 1..size |->
        LET m == IF i <= counter THEN [msgs[i] EXCEPT !.live = FALSE] ELSE msgs[i]
        IN IF i = 1
           THEN [m EXCEPT !.timestamp =
                   LowBytesFrom(msgs[1].timestamp, msgs[counter + 1].timestamp, size)]
           ELSE m]

\* mqtt.c:83-85: how far the send loop gets when no write fails
DueCount(msgs, t) ==
  CHOOSE k \in 0..Len(msgs) :
    /\ \A i \in 1..k : msgs[i].timestamp <= t
    /\ k = Len(msgs) \/ msgs[k + 1].timestamp > t

\* DrainMessages.  failAt = k > 0: the k-th write of this pass fails.
\* result is -1 on failure, else the timestamp of the new head or INT64_MAX.
DrainMessages(msgs, last, t, failAt, ub) ==
  LET due == DueCount(msgs, t)
      failed == failAt \in 1..due
      counter == IF failed THEN failAt - 1 ELSE due
      sent == [i \in 1..counter |->
                 Packet(SendPublishMessage(TopicBytes(msgs[i], ub),
                                           PayloadBytes(msgs[i], ub)),
                        t,
                        IF msgs[i].live \/ ub # "junk" THEN msgs[i].id ELSE 0)]
      left == IF counter = 0 THEN msgs
              ELSE IF counter = Len(msgs) THEN <<>>
              ELSE MemmoveBytes(msgs, counter)
  IN IF failed
     THEN [result |-> -1, messages |-> msgs, last_timestamp |-> last,
           sent |-> sent, freed_twice |-> FALSE]
     ELSE [result |-> IF Len(left) > 0 THEN left[1].timestamp ELSE Int64Max,
           messages |-> left,
           last_timestamp |-> IF counter > 0 THEN t ELSE last,
           sent |-> sent,
           freed_twice |-> \E i \in 1..counter : ~msgs[i].live]

\* A next-ping time without the threshold
NextPingLate(last, ka) == last + ka * 1000

\* mqtt.c:140-141
NextPing(last, ka) == last + ka * 1000 - kPingThreshold

\* mqtt.c:142
PingDue(next_ping, t) == next_ping <= t

\* mqtt.c:157, 163: poll with a negative timeout waits without limit
PollDeadline(t, timeout) == IF timeout < 0 THEN Int64Max ELSE t + timeout

\* A cancel loop that steps on after every entry, removed or not
AfterRemovalSkips(index) == index + 1

\* mqtt.c:406-417: after a removal the loop looks at the same index again
AfterRemoval(index) == index

\* mqtt.c:415-416: memmove of the entries behind the removed one
RemoveAt(msgs, index) ==
  [i \in 1..(Len(msgs) - 1) |-> IF i < index THEN msgs[i] ELSE msgs[i + 1]]

\* The loop of MqttCancel, index counted from 1
RECURSIVE CancelLoop(_, _, _, _)
CancelLoop(msgs, index, topic, ub) ==
  IF index > Len(msgs) THEN msgs
  ELSE IF StrCompare(TopicBytes(msgs[index], ub), topic) # 0
  THEN CancelLoop(msgs, index + 1, topic, ub)
  ELSE CancelLoop(RemoveAt(msgs, index), AfterRemoval(index), topic, ub)

\* What a call leaves behind for the caller and for the log: its result, and
\* for MqttCreate the bytes read as acknowledgements and the steps of the
\* handshake in the order they were made, for IoThread why it left its loop
NoCall ==
  [op |-> "none", result |-> FALSE, topic |-> <<>>, ret |-> 0,
   connack |-> <<>>, suback |-> <<>>, steps |-> <<>>, fatal |-> ""]

\* No client
IdleCl ==
  /\ now = StartClock /\ cphase = "none" /\ wphase = "none"
  /\ keepalive = 1 /\ holdback = 0 /\ last_timestamp = 0
  /\ messages = <<>> /\ messages_alloc = 0 /\ pipe = 0 /\ deadline = Int64Max
  /\ wire = <<>> /\ accepted = <<>> /\ cout = NoCall

\* Before MqttCreate, with the options of the command line chosen
ClientInit ==
  /\ now = StartClock /\ cphase = "none" /\ wphase = "none"
  /\ keepalive \in Keepalives /\ holdback \in Holdbacks /\ last_timestamp = 0
  /\ messages = <<>> /\ messages_alloc = 0 /\ pipe = 0 /\ deadline = Int64Max
  /\ wire = <<>> /\ accepted = <<>> /\ cout = NoCall

\* What the broker sends after the handshake: nothing, a PINGRESP, or a
\* length that never ends
ClientStreams ==
  { <<>>, <<OtherFrame(<<208, 0>>)>>,
    <<RawBytes(<<48, 128, 128, 128, 128, 1>>)>> }

\* A broker that sends nothing after the handshake
QuietIo ==
  /\ stream = <<>> /\ expected = <<>> /\ pos = 0 /\ buffer = <<>>
  /\ callbacks = <<>> /\ outcomes = <<>> /\ running = FALSE

ClientIo ==
  /\ expected \in ClientStreams
  /\ stream = Flatten(expected)
  /\ pos = 0 /\ buffer = <<>> /\ callbacks = <<>> /\ outcomes = <<>>
  /\ running = FALSE

\* MqttCreate.  connack and suback are what read() delivers for the two
\* acknowledgements, fail the step that fails on its own.
MqttCreate(connack, suback, fail) ==
  /\ cphase = "none"
  /\ LET before_send == fail \in {"malloc", "clock", "mtx_init", "socket", "pipe", "connect"}
         connect_sent == ~before_send /\ fail # "send_connect"
         connack_ok == connect_sent /\ ReceiveConnectAck(connack)
         subscribe_sent == connack_ok /\ fail # "send_subscribe"
         suback_ok == subscribe_sent /\ ReceiveSubscribeAck(suback)
         created == suback_ok /\ fail # "thrd_create"
         \* rollback_send_connect_message: every failure after CONNACK
         disconnect == connack_ok /\ ~created
     IN /\ wire' = wire
                   \o (IF connect_sent
                       THEN <<Packet(ConnectMessage(keepalive), now, 0)>> ELSE <<>>)
                   \o (IF subscribe_sent
                       THEN <<Packet(SubscribeMessage, now, 0)>> ELSE <<>>)
                   \o (IF disconnect
                       THEN <<Packet(DisconnectMessage, now, 0)>> ELSE <<>>)
        /\ cphase' = IF created THEN "live" ELSE "failed"
        /\ wphase' = IF created THEN "started" ELSE "none"
        /\ running' = created
        /\ last_timestamp' = IF created THEN now ELSE last_timestamp
        /\ cout' = [NoCall EXCEPT
                      !.op = "MqttCreate", !.result = created,
                      !.connack = IF connect_sent THEN connack ELSE <<>>,
                      !.suback = IF subscribe_sent THEN suback ELSE <<>>,
                      !.steps = (IF connect_sent THEN <<"CONNECT", "CONNACK">> ELSE <<>>)
                                \o (IF subscribe_sent THEN <<"SUBSCRIBE", "SUBACK">> ELSE <<>>)
                                \o (IF created THEN <<"THREAD">> ELSE <<>>)
                                \o (IF disconnect THEN <<"DISCONNECT">> ELSE <<>>)]
  /\ UNCHANGED <<now, keepalive, holdback, messages, messages_alloc, pipe,
                 deadline, accepted>>
  /\ UNCHANGED <<stream, expected, pos, buffer, callbacks, outcomes>>
  /\ UNCHANGED <<fsVars, vnVars, enVars, ndVars>>

\* A test of the flag that finds the worker running whatever the flag says
AlwaysRunning(flag) == TRUE

\* mqtt.c:347: atomic_load(&mqtt->running)
IoThreadRunning(flag) == flag

\* MqttPublish: what it returns and what it leaves in the queue.  fail
\* names the step that fails on its own.
MqttPublishResult(topic, payload, fail) ==
  LET refused == \/ Len(topic) > 65535
                 \/ 2 + Len(topic) + Len(payload) > MaxRemainingLength
                 \/ ~IoThreadRunning(running)
                 \/ fail \in {"clock", "mtx_lock", "str_copy", "malloc"}
                 \/ fail = "realloc" /\ Len(messages) = messages_alloc
      message == [timestamp |-> now + holdback, topic |-> topic,
                  payload |-> payload, live |-> TRUE,
                  id |-> Len(accepted) + 1]
  IN IF refused
     THEN [result |-> FALSE, messages |-> messages,
           messages_alloc |-> messages_alloc, pipe |-> pipe,
           accepted |-> accepted]
     ELSE [result |-> TRUE, messages |-> Append(messages, message),
           messages_alloc |-> IF Len(messages) = messages_alloc
                              THEN messages_alloc + 1 ELSE messages_alloc,
           \* WakeIoThread
           pipe |-> pipe + 1,
           accepted |-> Append(accepted,
                               [topic |-> topic, payload |-> payload,
                                at |-> now, due |-> now + holdback])]

MqttPublish(topic, payload, fail) ==
  /\ cphase = "live"
  /\ LET r == MqttPublishResult(topic, payload, fail)
     IN /\ messages' = r.messages
        /\ messages_alloc' = r.messages_alloc
        /\ pipe' = r.pipe
        /\ accepted' = r.accepted
        /\ cout' = [NoCall EXCEPT !.op = "MqttPublish", !.result = r.result,
                                  !.topic = topic]
  /\ UNCHANGED <<now, cphase, wphase, keepalive, holdback, last_timestamp,
                 deadline, wire>>
  /\ UNCHANGED <<fsVars, ioVars, vnVars, enVars, ndVars>>

\* A WRITE that publishes under the path as the kernel gives it
TopicWithSlash(path) == path

\* mqttfs_write.c:60: path + 1, the path without its leading slash
WriteTopic(path) == Tail(path)

\* EntrySearch (entry.c:95-128) walks the path with strtok, which skips
\* separators at the start: /a/b and a/b name the same entry
EntryKey(path) == IF Len(path) > 0 /\ path[1] = Slash THEN Tail(path) ELSE path

EntryStore(e, key, data) ==
  [k \in DOMAIN e \cup {key} |->
     IF k = key THEN [data |-> data, size |-> Len(data)] ELSE e[k]]

WriteFailures == { "mtx_lock", "entry", "data" }

EINVAL == 22
EIO == 5

\* MqttfsWrite (mqttfs_write.c:28-74), the mutex held from start to end.
\* The payload is stored before MqttPublish is called and stays stored
\* when the publish is refused.
MqttfsWrite(path, buf, offset, fail) ==
  /\ cphase = "live"
  /\ entries_mutex = "free"
  /\ IF offset # 0 \/ fail \in WriteFailures
     THEN /\ cout' = [NoCall EXCEPT !.op = "MqttfsWrite", !.topic = path,
                                    !.ret = IF offset # 0 THEN -EINVAL ELSE -EIO]
          /\ UNCHANGED <<messages, messages_alloc, pipe, accepted, entry>>
     ELSE LET r == MqttPublishResult(WriteTopic(path), buf, fail)
          IN /\ entry' = EntryStore(entry, EntryKey(path), buf)
             /\ messages' = r.messages
             /\ messages_alloc' = r.messages_alloc
             /\ pipe' = r.pipe
             /\ accepted' = r.accepted
             /\ cout' = [NoCall EXCEPT !.op = "MqttfsWrite", !.topic = path,
                                       !.result = r.result,
                                       !.ret = IF r.result THEN Len(buf) ELSE -EIO]
  /\ UNCHANGED <<now, cphase, wphase, keepalive, holdback, last_timestamp,
                 deadline, wire>>
  /\ UNCHANGED <<entries_mutex, tpc, tlocal, stores, reads>>
  /\ UNCHANGED <<fsVars, ioVars, vnVars, ndVars>>

\* MqttCancel
MqttCancel(topic, ub) ==
  /\ cphase = "live"
  /\ messages # <<>>
  /\ IF ub = "abort" /\ \E i \in 1..Len(messages) : ~messages[i].live
     THEN cphase' = "aborted" /\ UNCHANGED messages
     ELSE cphase' = cphase /\ messages' = CancelLoop(messages, 1, topic, ub)
  /\ cout' = [NoCall EXCEPT !.op = "MqttCancel", !.topic = topic]
  /\ UNCHANGED <<now, wphase, keepalive, holdback, last_timestamp,
                 messages_alloc, pipe, deadline, wire, accepted>>
  /\ UNCHANGED <<fsVars, ioVars, vnVars, enVars, ndVars>>

\* The reasons for which the worker gets to the top of its loop
WakeReasons == { "start", "timeout", "pipe", "socket", "closed" }

\* IoThread from the return of poll to the next poll, given what the read
\* and the parse loop left (left) and what DrainMessages would do (d).
\* clockFails: MillisNow returns 0; failAt: the write of this pass that
\* fails; ub as in TopicBytes.
IoThreadPass(reason, n, left, d, clockFails, failAt, ub) ==
  LET \* mqtt.c:207-209 and 229-232
      fatal == reason = "closed" \/ ~left.running
      drained == ~fatal /\ running /\ ~clockFails
      aborted == drained /\ d.freed_twice /\ ub = "abort"
      next_ping == NextPing(d.last_timestamp, keepalive)
      ping_due == drained /\ d.result # -1 /\ ~aborted /\ PingDue(next_ping, now)
      ping_fails == ping_due /\ failAt = Len(d.sent) + 1
      ping_sent == ping_due /\ ~ping_fails
      goes_on == drained /\ d.result # -1 /\ ~aborted /\ ~ping_fails
      next_ping_after == IF ping_sent THEN NextPing(now, keepalive) ELSE next_ping
      timeout == Min(next_ping_after, d.result) - now
      why == IF reason = "closed" THEN "closed"
             ELSE IF ~left.running THEN "parser"
             ELSE IF ~running THEN "stopped"
             ELSE IF clockFails THEN "clock"
             ELSE IF d.result = -1 THEN "publish"
             ELSE IF aborted THEN "abort"
             ELSE IF ping_fails THEN "ping"
             ELSE ""
  IN /\ cout' = [NoCall EXCEPT !.op = "IoThread", !.fatal = why]
     /\ pipe' = IF reason = "pipe" THEN pipe - 1 ELSE pipe
     /\ pos' = IF reason = "socket" THEN pos + n ELSE pos
     /\ callbacks' = left.callbacks
     /\ outcomes' = left.outcomes
     /\ buffer' = IF goes_on THEN left.buffer ELSE <<>>
     /\ running' = goes_on
     /\ wphase' = IF goes_on THEN "polling" ELSE "exited"
     /\ cphase' = IF aborted THEN "aborted" ELSE cphase
     /\ messages' = IF drained THEN d.messages ELSE messages
     /\ wire' = wire \o (IF drained THEN d.sent ELSE <<>>)
                     \o (IF ping_sent THEN <<Packet(PingMessage, now, 0)>> ELSE <<>>)
     /\ last_timestamp' = IF ping_sent THEN now
                          ELSE IF drained THEN d.last_timestamp
                          ELSE last_timestamp
     /\ deadline' = IF goes_on THEN PollDeadline(now, timeout) ELSE Int64Max

\* IoThread: one wake-up of the worker, from the return of poll (or the
\* start of the thread) through the rest of that iteration and the top of
\* the next one, up to the next poll.  n and junk as in IoThreadRead.
IoThread(reason, n, junk, clockFails, failAt, ub) ==
  /\ cphase \in {"live", "stopping"}
  /\ CASE reason = "start" -> wphase = "started"
       [] reason = "timeout" -> wphase = "polling" /\ now >= deadline
       [] reason = "pipe" -> wphase = "polling" /\ pipe > 0
       [] reason = "socket" -> /\ wphase = "polling" /\ pipe = 0
                               /\ n \in 1..(Len(stream) - pos)
       [] reason = "closed" -> /\ wphase = "polling" /\ pipe = 0
                               /\ pos = Len(stream)
  /\ IoThreadPass(reason, n,
                  IF reason = "socket"
                  THEN ParseLoop(buffer \o SubSeq(stream, pos + 1, pos + n),
                                 buffer \o SubSeq(stream, pos + 1, pos + n),
                                 junk, callbacks, outcomes)
                  ELSE [running |-> TRUE, buffer |-> buffer,
                        callbacks |-> callbacks, outcomes |-> outcomes],
                  DrainMessages(messages, last_timestamp, now, failAt, ub),
                  clockFails, failAt, ub)
  /\ UNCHANGED <<now, keepalive, holdback, messages_alloc, accepted>>
  /\ UNCHANGED <<stream, expected>>
  /\ UNCHANGED <<fsVars, vnVars, enVars, ndVars>>

\* A join that returns while the worker is still in its loop
JoinAtOnce(w) == TRUE

\* mqtt.c:425: thrd_join returns when the worker has left IoThread
ThrdJoin(w) == w = "exited"

\* MqttDestroy up to thrd_join: the flag is cleared and the worker woken
MqttDestroyStop ==
  /\ cphase = "live"
  /\ cphase' = "stopping"
  /\ running' = FALSE
  /\ pipe' = pipe + 1
  /\ cout' = [NoCall EXCEPT !.op = "MqttDestroy"]
  /\ UNCHANGED <<now, wphase, keepalive, holdback, last_timestamp, messages,
                 messages_alloc, deadline, wire, accepted>>
  /\ UNCHANGED <<stream, expected, pos, buffer, callbacks, outcomes>>
  /\ UNCHANGED <<fsVars, vnVars, enVars, ndVars>>

\* MqttDestroy from the return of thrd_join: DISCONNECT (its result is not
\* looked at), the descriptors closed, the queue freed
MqttDestroyJoin(writeFails) ==
  /\ cphase = "stopping"
  /\ ThrdJoin(wphase)
  /\ wire' = IF writeFails THEN wire
             ELSE Append(wire, Packet(DisconnectMessage, now, 0))
  /\ messages' = <<>>
  /\ messages_alloc' = 0
  /\ cphase' = "destroyed"
  /\ cout' = [NoCall EXCEPT !.op = "MqttDestroy", !.result = TRUE]
  /\ UNCHANGED <<now, wphase, keepalive, holdback, last_timestamp, pipe,
                 deadline, accepted>>
  /\ UNCHANGED <<fsVars, ioVars, vnVars, enVars, ndVars>>

\* The clock moves on.  The worker is woken at once by a byte in the pipe
\* and by the end of its timeout, so the clock does not pass either while
\* the worker sleeps.
Tick ==
  /\ cphase = "live"
  /\ wphase = "polling"
  /\ now < MaxClock
  /\ pipe = 0
  /\ now < deadline
  /\ now' = Min(Min(now + TickMs, deadline), MaxClock)
  /\ UNCHANGED <<cphase, wphase, keepalive, holdback, last_timestamp, messages,
                 messages_alloc, pipe, deadline, wire, accepted, cout>>
  /\ UNCHANGED <<fsVars, ioVars, vnVars, enVars, ndVars>>

\* The writes a pass of the worker can fail at: 0 for none, then the due
\* messages in order, then the ping
FailPoints == 0..(DueCount(messages, now) + 1)

\* What reading freed memory can come to, where the queue has such entries
UbChoices ==
  IF \E i \in 1..Len(messages) : ~messages[i].live THEN UbOutcomes ELSE { "stale" }

WriteOffsets == { 0, 1 }

PublishFailures == { "none", "clock", "mtx_lock", "realloc", "str_copy", "malloc" }

\* The queue and the keep-alive: a client that came up, publishes, cancels,
\* and a worker woken by its timeout and by the pipe
ClientNext ==
  \/ MqttCreate(<<32, 2, 0, 0>>, <<144, 3, 0, 1, 0>>, "none")
  \/ \E in \in PublishInputs, offset \in WriteOffsets,
        fail \in PublishFailures \cup WriteFailures :
       /\ Len(accepted) < MaxPublishes
       /\ offset # 0 => fail = "none"
       /\ MqttfsWrite(<<Slash>> \o in.topic, in.payload, offset, fail)
  \/ \E topic \in Topics, ub \in UbChoices : MqttCancel(topic, ub)
  \/ \E reason \in { "start", "timeout", "pipe" }, ub \in UbChoices :
       IoThread(reason, 0, 0, FALSE, 0, ub)
  \/ Tick

\* The keep-alive of CONNECT is a uint16_t: none, the shortest, the longest
AllKeepalives == { 0, 1, 65535 }

\* The client as MqttCreate finds it, under any keep-alive
TimeoutInit ==
  /\ now = StartClock /\ cphase = "none" /\ wphase = "none"
  /\ keepalive \in AllKeepalives /\ holdback \in Holdbacks /\ last_timestamp = 0
  /\ messages = <<>> /\ messages_alloc = 0 /\ pipe = 0 /\ deadline = Int64Max
  /\ wire = <<>> /\ accepted = <<>> /\ cout = NoCall

\* One wake-up of the worker with no failure of its own
WorkerStep ==
  \E reason \in { "start", "timeout", "pipe" }, ub \in UbChoices :
    IoThread(reason, 0, 0, FALSE, 0, ub)

\* The worker's cycle of drain, ping and poll next to publishes
TimeoutNext ==
  \/ MqttCreate(<<32, 2, 0, 0>>, <<144, 3, 0, 1, 0>>, "none")
  \/ \E in \in PublishInputs :
       /\ Len(accepted) < MaxPublishes
       /\ MqttfsWrite(<<Slash>> \o in.topic, in.payload, 0, "none")
  \/ WorkerStep
  \/ Tick

\* The life of the client: start-up with every failure, the broker's bytes,
\* every fatal error of the worker, shutdown
LifeNext ==
  \/ \E connack \in ConnAcks, suback \in SubAcks, fail \in CreateFailures :
       MqttCreate(connack, suback, fail)
  \/ \E in \in PublishInputs, fail \in PublishFailures :
       /\ Len(accepted) < MaxLifePublishes \/ ~running
       /\ MqttPublish(in.topic, in.payload, fail)
  \/ \E reason \in { "start", "timeout", "pipe", "closed" },
        clockFails \in BOOLEAN, failAt \in FailPoints :
       IoThread(reason, 0, 0, clockFails, failAt, "stale")
  \/ \E n \in 1..(Len(stream) - pos), junk \in JunkBytes,
        clockFails \in BOOLEAN, failAt \in FailPoints :
       IoThread("socket", n, junk, clockFails, failAt, "stale")
  \/ MqttDestroyStop
  \/ \E writeFails \in BOOLEAN : MqttDestroyJoin(writeFails)
  \/ Tick

\* No thread in a handler of the mutex-protected tree
IdleEn ==
  /\ entries_mutex = "free" /\ entry = <<>>
  /\ tpc = <<>> /\ tlocal = <<>> /\ stores = <<>> /\ reads = <<>>

\* ---------------------------------------------------------------------
\* The entries behind the filesystem handlers, thread by thread
\* (main.c, mqttfs_write.c, mqttfs_read.c): FUSE runs MqttfsWrite and
\* MqttfsRead on its own threads, the worker of the client runs
\* OnMqttMessage; each handler is followed statement by statement.
\* ---------------------------------------------------------------------

\* How many handlers are called in all
MaxCalls == 4

ENOENT == 2

FuseThreads == { "fuse1", "fuse2" }
Threads == FuseThreads \cup { "mqtt" }

\* The handlers called so far
Calls == tlocal["fuse1"].calls + tlocal["fuse2"].calls + tlocal["mqtt"].calls

\* The payload of the call-th handler: each has a length of its own, so
\* the data of one and the size of another never fit
PayloadOf(call) == [j \in 1..call |-> call]

\* The size the kernel asks for in a READ: room for every payload
ReadRequestSize == MaxCalls

\* The locals of a handler
NoLocal ==
  [op |-> "none", buf |-> <<>>, start |-> 0, seen |-> 0,
   read_size |-> 0, out |-> <<>>, ret |-> 0, calls |-> 0]

EntriesInit ==
  /\ entries_mutex = "free" /\ entry = <<>>
  /\ tpc = [t \in Threads |-> "idle"]
  /\ tlocal = [t \in Threads |-> NoLocal]
  /\ stores = <<>> /\ reads = <<>>

\* A mutex that lets everybody in
MtxLockNoWait(m) == TRUE

\* mtx_lock returns with the mutex held once nobody else holds it
MtxLock(m) == m = "free"

\* A handler is called on a thread that has nothing to do.  start and seen
\* are how many stores and how many READs were finished by then.
Call(t, op) ==
  /\ tpc[t] = "idle"
  /\ Calls < MaxCalls
  /\ tpc' = [tpc EXCEPT ![t] = "lock"]
  /\ tlocal' = [tlocal EXCEPT ![t] =
                  [NoLocal EXCEPT
                     !.op = op,
                     !.buf = IF op = "MqttfsRead" THEN <<>>
                             ELSE PayloadOf(Calls + 1),
                     !.start = Len(stores), !.seen = Len(reads),
                     !.calls = tlocal[t].calls + 1]]
  /\ UNCHANGED <<entries_mutex, entry, stores, reads>>
  /\ UNCHANGED <<fsVars, ioVars, vnVars, clVars, ndVars>>

\* mqttfs_write.c:28, mqttfs_read.c:26: the kernel's request on a thread
\* of FUSE
CallMqttfsWrite(t) ==
  t \in FuseThreads /\ Call(t, "MqttfsWrite")

CallMqttfsRead(t) ==
  t \in FuseThreads /\ Call(t, "MqttfsRead")

\* main.c:66: the callback of the client, on its worker
CallOnMqttMessage ==
  /\ tpc["mqtt"] = "idle"
  /\ Call("mqtt", "OnMqttMessage")

\* The return of a handler
Return(t, ret) ==
  /\ tpc' = [tpc EXCEPT ![t] = "idle"]
  /\ tlocal' = [tlocal EXCEPT ![t] =
                  [NoLocal EXCEPT !.ret = ret, !.calls = tlocal[t].calls]]
  /\ reads' = IF tlocal[t].op = "MqttfsRead"
              THEN Append(reads, [start |-> tlocal[t].start, seen |-> tlocal[t].seen,
                                  out |-> tlocal[t].out, ret |-> ret])
              ELSE reads

\* mtx_lock at the head of the three handlers (mqttfs_write.c:33,
\* mqttfs_read.c:30, main.c:69); on failure the handler returns at once
LockEntries(t, fails) ==
  /\ tpc[t] = "lock"
  /\ IF fails
     THEN Return(t, -EIO) /\ UNCHANGED entries_mutex
     ELSE /\ MtxLock(entries_mutex)
          /\ entries_mutex' = t
          /\ tpc' = [tpc EXCEPT ![t] =
                       IF tlocal[t].op = "MqttfsRead" THEN "find" ELSE "search"]
          /\ UNCHANGED <<tlocal, reads>>
  /\ UNCHANGED <<entry, stores>>
  /\ UNCHANGED <<fsVars, ioVars, vnVars, clVars, ndVars>>

\* EntrySearch (mqttfs_write.c:42, main.c:73): the entry is found or made
\* empty
SearchEntry(t, fails) ==
  /\ tpc[t] = "search"
  /\ IF fails
     THEN /\ tpc' = [tpc EXCEPT ![t] = "unlock"]
          /\ tlocal' = [tlocal EXCEPT ![t].ret = -EIO]
          /\ UNCHANGED entry
     ELSE /\ tpc' = [tpc EXCEPT ![t] = "data"]
          /\ entry' = IF NameA \in DOMAIN entry THEN entry
                      ELSE [k \in DOMAIN entry \cup {NameA} |->
                              IF k = NameA THEN [data |-> <<>>, size |-> 0]
                              ELSE entry[k]]
          /\ UNCHANGED tlocal
  /\ UNCHANGED <<entries_mutex, stores, reads>>
  /\ UNCHANGED <<fsVars, ioVars, vnVars, clVars, ndVars>>

\* mqttfs_write.c:49-58, main.c:78-86: malloc, memcpy, free, entry->data
StoreData(t, fails) ==
  /\ tpc[t] = "data"
  /\ IF fails
     THEN /\ tpc' = [tpc EXCEPT ![t] = "unlock"]
          /\ tlocal' = [tlocal EXCEPT ![t].ret = -EIO]
          /\ UNCHANGED entry
     ELSE /\ tpc' = [tpc EXCEPT ![t] = "size"]
          /\ entry' = [entry EXCEPT ![NameA].data = tlocal[t].buf]
          /\ UNCHANGED tlocal
  /\ UNCHANGED <<entries_mutex, stores, reads>>
  /\ UNCHANGED <<fsVars, ioVars, vnVars, clVars, ndVars>>

\* mqttfs_write.c:59, main.c:87: entry->size; the payload is stored now
StoreSize(t) ==
  /\ tpc[t] = "size"
  /\ tlocal[t].op # "MqttfsRead"
  /\ entry' = [entry EXCEPT ![NameA].size = Len(tlocal[t].buf)]
  /\ stores' = Append(stores, tlocal[t].buf)
  /\ tpc' = [tpc EXCEPT ![t] =
               IF tlocal[t].op = "MqttfsWrite" THEN "publish" ELSE "unlock"]
  /\ tlocal' = [tlocal EXCEPT ![t].ret = Len(tlocal[t].buf)]
  /\ UNCHANGED <<entries_mutex, reads>>
  /\ UNCHANGED <<fsVars, ioVars, vnVars, clVars, ndVars>>

\* mqttfs_write.c:61-66: MqttPublish, the payload stays when it refuses
PublishStored(t, fails) ==
  /\ tpc[t] = "publish"
  /\ tpc' = [tpc EXCEPT ![t] = "unlock"]
  /\ tlocal' = [tlocal EXCEPT ![t].ret = IF fails THEN -EIO ELSE tlocal[t].ret]
  /\ UNCHANGED <<entries_mutex, entry, stores, reads>>
  /\ UNCHANGED <<fsVars, ioVars, vnVars, clVars, ndVars>>

\* mqttfs_read.c:38-42: EntryFind
FindEntry(t) ==
  /\ tpc[t] = "find"
  /\ IF NameA \in DOMAIN entry
     THEN tpc' = [tpc EXCEPT ![t] = "size"] /\ UNCHANGED tlocal
     ELSE /\ tpc' = [tpc EXCEPT ![t] = "unlock"]
          /\ tlocal' = [tlocal EXCEPT ![t].ret = -ENOENT]
  /\ UNCHANGED <<entries_mutex, entry, stores, reads>>
  /\ UNCHANGED <<fsVars, ioVars, vnVars, clVars, ndVars>>

\* mqttfs_read.c:45-47: read_end and read_size from entry->size, offset 0
ReadSize(t) ==
  /\ tpc[t] = "size"
  /\ tlocal[t].op = "MqttfsRead"
  /\ tlocal' = [tlocal EXCEPT ![t].read_size = Min(ReadRequestSize, entry[NameA].size)]
  /\ tpc' = [tpc EXCEPT ![t] = "copy"]
  /\ UNCHANGED <<entries_mutex, entry, stores, reads>>
  /\ UNCHANGED <<fsVars, ioVars, vnVars, clVars, ndVars>>

\* mqttfs_read.c:48-50: memcpy of read_size bytes from entry->data.  Bytes
\* behind the end of the data are whatever the heap holds there.
ReadCopy(t, junk) ==
  /\ tpc[t] = "copy"
  /\ tlocal' = [tlocal EXCEPT
                  ![t].out = [i \in 1..tlocal[t].read_size |->
                                IF i <= Len(entry[NameA].data)
                                THEN entry[NameA].data[i] ELSE junk],
                  ![t].ret = tlocal[t].read_size]
  /\ tpc' = [tpc EXCEPT ![t] = "unlock"]
  /\ UNCHANGED <<entries_mutex, entry, stores, reads>>
  /\ UNCHANGED <<fsVars, ioVars, vnVars, clVars, ndVars>>

\* rollback_mtx_lock (mqttfs_write.c:68-74, mqttfs_read.c:52-58,
\* main.c:88-92): mtx_unlock and return
UnlockEntries(t) ==
  /\ tpc[t] = "unlock"
  /\ entries_mutex' = "free"
  /\ Return(t, tlocal[t].ret)
  /\ UNCHANGED <<entry, stores>>
  /\ UNCHANGED <<fsVars, ioVars, vnVars, clVars, ndVars>>

EntriesNext ==
  \/ \E t \in FuseThreads : CallMqttfsWrite(t)
  \/ \E t \in FuseThreads : CallMqttfsRead(t)
  \/ CallOnMqttMessage
  \/ \E t \in Threads, fails \in BOOLEAN :
       \/ LockEntries(t, fails)
       \/ SearchEntry(t, fails)
       \/ StoreData(t, fails)
       \/ PublishStored(t, fails)
  \/ \E t \in Threads :
       \/ StoreSize(t)
       \/ FindEntry(t)
       \/ ReadSize(t)
       \/ \E junk \in JunkBytes : ReadCopy(t, junk)
       \/ UnlockEntries(t)

\* ---------------------------------------------------------------------
\* The children of a directory (node.c, fuse.c): a search tree kept by
\* tsearch and walked by twalk.  The tree is a root key and the left and
\* right link of every key; a name is a sequence of bytes and no name is
\* empty, so the empty sequence stands for a null link.
\* ---------------------------------------------------------------------

NoKey == <<>>

NoSubs == [root |-> NoKey, left |-> <<>>, right |-> <<>>]

\* The names given to the children: "a", "ab", "b", "c"
WalkNames == { <<97>>, <<97, 98>>, <<98>>, <<99>> }

\* strcmp on the bytes of two names: negative, zero or positive
RECURSIVE Strcmp(_, _)
Strcmp(a, b) ==
  IF a = <<>> /\ b = <<>> THEN 0
  ELSE IF a = <<>> THEN -1
  ELSE IF b = <<>> THEN 1
  ELSE IF a[1] # b[1] THEN a[1] - b[1]
  ELSE Strcmp(Tail(a), Tail(b))

\* node.c:37-41 and fuse.c:64-66
CompareNodes(lh, rh) == Strcmp(lh, rh)

SubsKeys(t) == DOMAIN t.left

\* The descent of tsearch and tfind from the key at: where key is, or the
\* null link it would hang on
RECURSIVE SearchSlot(_, _, _)
SearchSlot(t, at, key) ==
  LET c == CompareNodes(key, at)
      next == IF c < 0 THEN t.left[at] ELSE t.right[at]
  IN IF c = 0 THEN [found |-> TRUE, parent |-> at, side |-> "none"]
     ELSE IF next = NoKey
     THEN [found |-> FALSE, parent |-> at, side |-> IF c < 0 THEN "left" ELSE "right"]
     ELSE SearchSlot(t, next, key)

\* The key whose left or right link is key, NoKey for the root
ParentKey(t, key) ==
  IF \E p \in SubsKeys(t) : t.left[p] = key \/ t.right[p] = key
  THEN CHOOSE p \in SubsKeys(t) : t.left[p] = key \/ t.right[p] = key
  ELSE NoKey

\* A new leaf on the link side of parent
Link(t, parent, side, key) ==
  LET keys == SubsKeys(t) \cup {key}
  IN [root |-> t.root,
      left |-> [k \in keys |-> IF k = key THEN NoKey
                               ELSE IF k = parent /\ side = "left" THEN key
                               ELSE t.left[k]],
      right |-> [k \in keys |-> IF k = key THEN NoKey
                                ELSE IF k = parent /\ side = "right" THEN key
                                ELSE t.right[k]]]

\* The three keys x, y, z in the order of CompareNodes
Ascending(x, y, z) ==
  CHOOSE o \in [1..3 -> {x, y, z}] :
    CompareNodes(o[1], o[2]) < 0 /\ CompareNodes(o[2], o[3]) < 0

\* The rotation after an insertion.  A new leaf x under y under z, where y
\* is the only child of z, leaves z with a subtree of height two on one
\* side and none on the other: the red-black tree of glibc (the uncle of x
\* is a null link) and the AVL tree of musl both rotate, and the middle of
\* the three keys takes the place of z with the other two as its leaves.
\* Up to four keys no other insertion moves a node in either library.
Rebalance(t, x) ==
  LET y == ParentKey(t, x)
      z == IF y = NoKey THEN NoKey ELSE ParentKey(t, y)
  IN IF z = NoKey \/ (t.left[z] # NoKey /\ t.right[z] # NoKey) THEN t
     ELSE LET o == Ascending(x, y, z)
              above == ParentKey(t, z)
              child(k, old) == IF k = o[2] THEN NoKey   \* replaced below
                               ELSE IF k \in {o[1], o[3]} THEN NoKey
                               ELSE IF old = z THEN o[2] ELSE old
          IN [root |-> IF above = NoKey THEN o[2] ELSE t.root,
              left |-> [k \in SubsKeys(t) |->
                          IF k = o[2] THEN o[1] ELSE child(k, t.left[k])],
              right |-> [k \in SubsKeys(t) |->
                           IF k = o[2] THEN o[3] ELSE child(k, t.right[k])]]

\* tsearch: the key is found, or linked as a new leaf and the tree is
\* rebalanced
Tsearch(t, key) ==
  IF t.root = NoKey
  THEN [root |-> key, left |-> [k \in {key} |-> NoKey],
        right |-> [k \in {key} |-> NoKey]]
  ELSE LET s == SearchSlot(t, t.root, key)
       IN IF s.found THEN t
          ELSE Rebalance(Link(t, s.parent, s.side, key), key)

\* twalk: a node without children is visited once as a leaf, any other
\* node before its left subtree, between the two and after its right one
RECURSIVE Twalk(_, _)
Twalk(t, at) ==
  IF at = NoKey THEN <<>>
  ELSE IF t.left[at] = NoKey /\ t.right[at] = NoKey
  THEN << [key |-> at, which |-> "leaf"] >>
  ELSE << [key |-> at, which |-> "preorder"] >> \o Twalk(t, t.left[at])
       \o << [key |-> at, which |-> "postorder"] >> \o Twalk(t, t.right[at])
       \o << [key |-> at, which |-> "endorder"] >>

\* A callback that takes the visit between the two subtrees
VisitInOrder(which) == which \in { "postorder", "leaf" }

\* node.c:49 and fuse.c:93: the visits the callback acts on
VisitTaken(which) == which \in { "preorder", "leaf" }

\* The names the callback is handed, in the order of the walk
WalkNamesTaken(t) ==
  LET taken == SelectSeq(Twalk(t, t.root), LAMBDA v : VisitTaken(v.which))
  IN [i \in 1..Len(taken) |-> taken[i].key]

WalkInit == subs = NoSubs /\ visited = <<>>

IdleWk == WalkInit

\* NodeInsert (node.c:111-117) and the tsearch of CreateChildNode and
\* RecurseStore (fuse.c:207, 177): a child of the name is in the tree
NodeInsert(name) ==
  /\ subs' = Tsearch(subs, name)
  /\ UNCHANGED visited
  /\ UNCHANGED <<fsVars, ioVars, vnVars, clVars, enVars, psVars, rnVars>>

\* NodeForEach (node.c:119-127) and the twalk of OnFuseOpendir
\* (fuse.c:420-421)
NodeForEach ==
  /\ visited' = WalkNamesTaken(subs)
  /\ UNCHANGED subs
  /\ UNCHANGED <<fsVars, ioVars, vnVars, clVars, enVars, psVars, rnVars>>

WalkNext ==
  \/ \E name \in WalkNames : NodeInsert(name)
  \/ NodeForEach

\* ---------------------------------------------------------------------
\* One call of MqttParseMessage (mqtt_parser.c) on bytes of any kind
\* ---------------------------------------------------------------------

MaxParseLen == 5

\* PUBLISH and PINGRESP type bytes, a length digit with the continuation
\* bit, and small values
ParseBytes == { 0, 1, 2, 48, 128, 208 }

RECURSIVE SeqsUpTo(_, _)
SeqsUpTo(S, n) ==
  IF n = 0 THEN { <<>> }
  ELSE LET shorter == SeqsUpTo(S, n - 1)
       IN shorter \cup { Append(q, x) : q \in { r \in shorter : Len(r) = n - 1 }, x \in S }

ParseInputs == SeqsUpTo(ParseBytes, MaxParseLen)

NotCalled == NoMessage("none")

IdlePs == parse_in = <<>> /\ parse_junk = 0 /\ parse_out = NotCalled

ParseInit ==
  /\ parse_in \in ParseInputs
  /\ parse_junk \in JunkBytes
  /\ parse_out = NotCalled

\* MqttParseMessage(&buffer, &size, ...) on the bytes not yet consumed
ParseCall ==
  /\ parse_out = NotCalled
  /\ parse_out' = MqttParseMessage(parse_in, parse_junk)
  /\ UNCHANGED <<parse_in, parse_junk>>
  /\ UNCHANGED <<fsVars, ioVars, vnVars, clVars, enVars, wkVars, rnVars>>

\* mqtt.c:215-237: after Success or Skipped the loop goes on at the cursor
ParseAgain ==
  /\ parse_out.status \in { "Success", "Skipped" }
  /\ parse_in' = SubSeq(parse_in, parse_out.consumed + 1, Len(parse_in))
  /\ parse_out' = NotCalled
  /\ UNCHANGED parse_junk
  /\ UNCHANGED <<fsVars, ioVars, vnVars, clVars, enVars, wkVars, rnVars>>

ParseNext == ParseCall \/ ParseAgain

\* ---------------------------------------------------------------------
\* The nodes and their handlers (node.c, mqttfs_create.c, mqttfs_rename.c)
\* ---------------------------------------------------------------------

MaxRenameCalls == 2

ENOTDIR == 20
EISDIR == 21
EEXIST == 17
EPERM == 1

RENAME_NOREPLACE == 1
RENAME_EXCHANGE == 2

\* node.h: a directory, and a file with its topic, payload and poll handle
DirNode == [is_dir |-> TRUE, topic |-> <<>>, data |-> <<>>, ph |-> FALSE]
FileNode(topic, data, ph) == [is_dir |-> FALSE, topic |-> topic, data |-> data, ph |-> ph]

NoRename ==
  [op |-> "none", ret |-> 0, from |-> <<>>, to |-> <<>>, flags |-> 0,
   published |-> <<>>, locked |-> FALSE, unlocks |-> 0, calls |-> 0]

\* What is below "a" and below "b" in the root when the handlers start
SubtreesA ==
  { <<>> }
  \cup { <<NameA>> :> FileNode(<<NameA>>, d, ph) : d \in { <<>>, <<7>> }, ph \in BOOLEAN }
  \cup { <<NameA>> :> DirNode }
  \cup { (<<NameA>> :> DirNode) @@ (<<NameA, NameB>> :> FileNode(<<NameA, NameB>>, <<9>>, ph)) :
           ph \in BOOLEAN }

SubtreesB ==
  { <<>> }
  \cup { <<NameB>> :> FileNode(<<NameB>>, <<8>>, ph) : ph \in BOOLEAN }
  \cup { <<NameB>> :> DirNode }

EmptyNodes == [p \in {ROOT} |-> DirNode]

RenameTrees == { EmptyNodes @@ x @@ y : x \in SubtreesA, y \in SubtreesB }

\* The paths the kernel names in CREATE and RENAME
RenamePaths == { <<NameA>>, <<NameB>>, <<NameA, NameB>>, <<NameB, NameA>> }

ParentPath(p) == SubSeq(p, 1, Len(p) - 1)

\* NodeFind (node.c:86-93): every component is found by NodeGet, which
\* finds nothing below a file
NodeFind(t, p) ==
  /\ p \in DOMAIN t
  /\ \A i \in 0..(Len(p) - 1) : t[SubSeq(p, 1, i)].is_dir

\* NodeGet (node.c:95-100)
NodeGet(t, parent, p) == t[parent].is_dir /\ p \in DOMAIN t

\* NodeRemove and NodeDestroy: the node leaves its parent and is freed
\* with everything below it
NodeDestroy(t, p) == Restrict(t, DOMAIN t \ Subtree(t, p))

\* SWAP(from_node->as_dir.subs, to_node->as_dir.subs): what was below a is
\* below b and the other way round
Rekey(a, b, q) ==
  IF q # a /\ IsPrefix(a, q) THEN b \o SubSeq(q, Len(a) + 1, Len(q))
  ELSE IF q # b /\ IsPrefix(b, q) THEN a \o SubSeq(q, Len(b) + 1, Len(q))
  ELSE q

SwapSubs(t, a, b) ==
  [r \in { Rekey(a, b, q) : q \in DOMAIN t } |-> t[Rekey(a, b, r)]]

\* SWAP of data and size
SwapData(t, a, b) ==
  [t EXCEPT ![a].data = t[b].data, ![b].data = t[a].data]

RenameResult(ret, t, published) == [ret |-> ret, nodes |-> t, published |-> published]

\* RenameExchange (mqttfs_rename.c:56-80); publish_ok is what MqttPublish
\* returns
RenameExchange(t, from, to, publish_ok) ==
  IF to \notin DOMAIN t THEN RenameResult(-ENOENT, t, <<>>)
  ELSE IF t[from].is_dir # t[to].is_dir
  THEN RenameResult(IF t[from].is_dir THEN -ENOTDIR ELSE -EISDIR, t, <<>>)
  ELSE IF ~t[from].is_dir /\ ~publish_ok THEN RenameResult(-EIO, t, <<>>)
  ELSE IF t[from].is_dir THEN RenameResult(0, SwapSubs(t, from, to), <<>>)
  ELSE RenameResult(0, SwapData(t, from, to),
                    << [topic |-> t[to].topic, payload |-> t[from].data] >>)

\* A rollback that leaves the node made for the target in the tree
RollbackKeepsNode(t, node) == t

\* rollback_node_insert, rollback_node_create (mqttfs_rename.c:125-129)
RollbackNodeInsert(t, node) == Restrict(t, DOMAIN t \ {node})

\* RenameNoreplace (mqttfs_rename.c:82-130)
RenameNoreplace(t, from, to, fail, publish_ok) ==
  IF to \in DOMAIN t THEN RenameResult(-EEXIST, t, <<>>)
  ELSE IF ~t[from].is_dir /\ t[from].ph THEN RenameResult(-EPERM, t, <<>>)
  ELSE IF fail = "NodeCreate" THEN RenameResult(-EIO, t, <<>>)
  ELSE IF ~t[from].is_dir /\ fail = "strdup_topic" THEN RenameResult(-EIO, t, <<>>)
  ELSE IF fail = "NodeInsert" THEN RenameResult(-EIO, t, <<>>)
  ELSE LET node == IF t[from].is_dir THEN DirNode ELSE FileNode(to, <<>>, FALSE)
           inserted == [q \in DOMAIN t \cup {to} |-> IF q = to THEN node ELSE t[q]]
           r == RenameExchange(inserted, from, to, publish_ok)
       IN IF r.ret # 0
          THEN RenameResult(-EIO, RollbackNodeInsert(r.nodes, to), <<>>)
          ELSE RenameResult(0, NodeDestroy(r.nodes, from), r.published)

\* RenameNormal (mqttfs_rename.c:132-152)
RenameNormal(t, from, to, fail, publish_ok) ==
  IF to \notin DOMAIN t THEN RenameNoreplace(t, from, to, fail, publish_ok)
  ELSE IF ~t[from].is_dir /\ t[from].ph THEN RenameResult(-EPERM, t, <<>>)
  ELSE LET r == RenameExchange(t, from, to, publish_ok)
       IN IF r.ret # 0 THEN r
          ELSE RenameResult(0, NodeDestroy(r.nodes, from), r.published)

\* Where a call leaves its function: the label it jumps or falls to, or
\* "return" for a return statement with no mtx_unlock before it, or
\* "unlock_return" for an mtx_unlock followed by return
ExitLabel(fn, fail) ==
  CASE fn = "MqttfsRename" ->
         IF fail = "mtx_lock" THEN "return"
         ELSE IF fail = "strdup_from" THEN "rollback_mtx_lock"
         ELSE IF fail = "strdup_to" THEN "rollback_strdup_from"
         ELSE "rollback_strdup_to"
    [] fn = "MqttfsCreate" ->
         IF fail = "mtx_lock" THEN "return"
         ELSE IF fail = "strdup" THEN "rollback_mtx_lock"
         ELSE "rollback_strdup"
    [] fn = "MqttfsMkdir" ->
         IF fail = "mtx_lock" THEN "return"
         ELSE IF fail \in { "tsearch", "exists" } THEN "rollback_mtx_lock"
         ELSE IF fail = "NodeCreate" THEN "rollback_tsearch"
         ELSE "unlock_return"
    [] fn = "MqttfsReaddir" ->
         IF fail \in { "clock", "mtx_lock" } THEN "return" ELSE "unlock_return"
    [] fn = "MqttfsUtimens" ->
         IF fail = "mtx_lock" THEN "return" ELSE "rollback_mtx_lock"
    [] fn = "MqttPublish" ->
         IF fail \in { "size", "not_running", "clock", "mtx_lock" } THEN "return"
         ELSE IF fail \in { "realloc", "str_copy" } THEN "rollback_mtx_lock"
         ELSE IF fail = "malloc" THEN "rollback_str_copy"
         ELSE "unlock_return"
    [] fn = "MqttCancel" ->
         IF fail = "mtx_lock" THEN "return" ELSE "unlock_return"
    [] fn = "DrainMessages" ->
         IF fail = "mtx_lock" THEN "return" ELSE "rollback_mtx_lock"

\* The failures that end a call before its mtx_lock has succeeded
BeforeLock(fn) ==
  CASE fn = "MqttfsReaddir" -> { "clock", "mtx_lock" }
    [] fn = "MqttPublish" -> { "size", "not_running", "clock", "mtx_lock" }
    [] OTHER -> { "mtx_lock" }

Acquired(fn, fail) == fail \notin BeforeLock(fn)

\* A reading in which only a jump to rollback_mtx_lock itself unlocks
UnlocksAtLabelOnly(label) == IF label = "rollback_mtx_lock" THEN 1 ELSE 0

\* The calls of mtx_unlock on the way out: every rollback label falls
\* through to the one at rollback_mtx_lock
Unlocks(label) == IF label = "return" THEN 0 ELSE 1

\* The mutex after the call
MutexAfter(locked, unlocks) == IF locked /\ unlocks = 0 THEN "held" ELSE "free"

RenameFailures ==
  { "none", "mtx_lock", "strdup_from", "strdup_to", "NodeCreate", "strdup_topic",
    "NodeInsert" }

RenameFlags == { 0, RENAME_NOREPLACE, RENAME_EXCHANGE, 3 }

\* MqttfsRename (mqttfs_rename.c:154-234).  The kernel answers a rename of
\* a path to itself, and one of a directory into itself or onto a
\* directory above it, without asking the filesystem.
MqttfsRename(from, to, flags, fail, publish_ok) ==
  /\ from # to /\ ~IsPrefix(from, to) /\ ~IsPrefix(to, from)
  /\ rn_out.calls < MaxRenameCalls
  /\ root_mutex = "free"
  /\ LET from_parent == ParentPath(from)
         to_parent == ParentPath(to)
         r == IF fail \in { "mtx_lock", "strdup_from", "strdup_to" }
              THEN RenameResult(-EIO, nodes, <<>>)
              ELSE IF ~NodeFind(nodes, from_parent) \/ ~NodeFind(nodes, to_parent)
              THEN RenameResult(-ENOENT, nodes, <<>>)
              ELSE IF ~nodes[from_parent].is_dir \/ ~nodes[to_parent].is_dir
              THEN RenameResult(-ENOTDIR, nodes, <<>>)
              ELSE IF ~NodeGet(nodes, from_parent, from)
              THEN RenameResult(-ENOENT, nodes, <<>>)
              ELSE CASE flags = 0 -> RenameNormal(nodes, from, to, fail, publish_ok)
                     [] flags = RENAME_EXCHANGE ->
                          RenameExchange(nodes, from, to, publish_ok)
                     [] flags = RENAME_NOREPLACE ->
                          RenameNoreplace(nodes, from, to, fail, publish_ok)
                     [] OTHER -> RenameResult(-EINVAL, nodes, <<>>)
         locked == Acquired("MqttfsRename", fail)
         unlocks == Unlocks(ExitLabel("MqttfsRename", fail))
     IN /\ nodes' = r.nodes
        /\ root_mutex' = MutexAfter(locked, unlocks)
        /\ UNCHANGED messages_mutex
        /\ rn_out' = [op |-> "RENAME", ret |-> r.ret, from |-> from, to |-> to,
                      flags |-> flags, published |-> r.published,
                      locked |-> locked, unlocks |-> unlocks,
                      calls |-> rn_out.calls + 1]
  /\ UNCHANGED <<fsVars, ioVars, vnVars, clVars, enVars, wkVars, psVars>>

CreateFileFailures == { "none", "mtx_lock", "strdup", "NodeCreate" }

\* MqttfsCreate (mqttfs_create.c:28-79): the new file has no topic yet
MqttfsCreate(path, fail) ==
  /\ rn_out.calls < MaxRenameCalls
  /\ root_mutex = "free"
  /\ LET parent == ParentPath(path)
         ret == IF fail \in { "mtx_lock", "strdup" } THEN -EIO
                ELSE IF ~NodeFind(nodes, parent) THEN -ENOENT
                ELSE IF ~nodes[parent].is_dir THEN -ENOTDIR
                ELSE IF fail = "NodeCreate" THEN -EIO
                ELSE IF path \in DOMAIN nodes THEN -EIO
                ELSE 0
         locked == Acquired("MqttfsCreate", fail)
         unlocks == Unlocks(ExitLabel("MqttfsCreate", fail))
     IN /\ nodes' = IF ret # 0 THEN nodes
                    ELSE [q \in DOMAIN nodes \cup {path} |->
                            IF q = path THEN FileNode(<<>>, <<>>, FALSE) ELSE nodes[q]]
        /\ root_mutex' = MutexAfter(locked, unlocks)
        /\ UNCHANGED messages_mutex
        /\ rn_out' = [NoRename EXCEPT !.op = "CREATE", !.ret = ret, !.to = path,
                                      !.locked = locked, !.unlocks = unlocks,
                                      !.calls = rn_out.calls + 1]
  /\ UNCHANGED <<fsVars, ioVars, vnVars, clVars, enVars, wkVars, psVars>>

\* The failures of the calls whose effect on the nodes is not modelled
LockFailures(fn) ==
  CASE fn = "MqttfsMkdir" -> { "none", "mtx_lock", "tsearch", "exists", "NodeCreate" }
    [] fn = "MqttfsReaddir" -> { "none", "clock", "mtx_lock" }
    [] fn = "MqttfsUtimens" -> { "none", "mtx_lock", "strdup", "NodeFind", "clock" }
    [] fn = "MqttPublish" ->
         { "none", "size", "not_running", "clock", "mtx_lock", "realloc", "str_copy",
           "malloc" }
    [] fn = "MqttCancel" -> { "none", "mtx_lock" }
    [] fn = "DrainMessages" -> { "none", "mtx_lock", "send" }

RootCalls == { "MqttfsMkdir", "MqttfsReaddir", "MqttfsUtimens" }
QueueCalls == { "MqttPublish", "MqttCancel", "DrainMessages" }

\* MqttfsMkdir, MqttfsReaddir, MqttfsUtimens (root_mutex) and MqttPublish,
\* MqttCancel, DrainMessages (messages_mutex): the lock and the unlock of
\* one call
LockCall(fn, fail) ==
  /\ rn_out.calls < MaxRenameCalls
  /\ IF fn \in RootCalls THEN root_mutex = "free" ELSE messages_mutex = "free"
  /\ LET locked == Acquired(fn, fail)
         unlocks == Unlocks(ExitLabel(fn, fail))
     IN /\ IF fn \in RootCalls
           THEN root_mutex' = MutexAfter(locked, unlocks) /\ UNCHANGED messages_mutex
           ELSE messages_mutex' = MutexAfter(locked, unlocks) /\ UNCHANGED root_mutex
        /\ rn_out' = [NoRename EXCEPT !.op = fn, !.locked = locked, !.unlocks = unlocks,
                                      !.calls = rn_out.calls + 1]
  /\ UNCHANGED nodes
  /\ UNCHANGED <<fsVars, ioVars, vnVars, clVars, enVars, wkVars, psVars>>

RenameInit ==
  /\ nodes \in RenameTrees
  /\ root_mutex = "free" /\ messages_mutex = "free"
  /\ rn_out = NoRename

RenameNext ==
  \/ \E from \in RenamePaths, to \in RenamePaths, flags \in RenameFlags,
        fail \in RenameFailures, publish_ok \in BOOLEAN :
       MqttfsRename(from, to, flags, fail, publish_ok)
  \/ \E path \in RenamePaths, fail \in CreateFileFailures : MqttfsCreate(path, fail)
  \/ \E fn \in RootCalls \cup QueueCalls : \E fail \in LockFailures(fn) : LockCall(fn, fail)

IdleRn ==
  /\ nodes = EmptyNodes
  /\ root_mutex = "free" /\ messages_mutex = "free"
  /\ rn_out = NoRename

IdleNd == IdleWk /\ IdlePs /\ IdleRn

\* The initial states: the part under study as constructed, the others idle
InitFs == FsInit /\ IdleIo /\ IdleVn /\ IdleCl /\ IdleEn /\ IdleNd
InitIngress == IdleFs /\ IngressInit /\ IdleVn /\ IdleCl /\ IdleEn /\ IdleNd
InitVarint == IdleFs /\ IdleIo /\ VarintInit /\ IdleCl /\ IdleEn /\ IdleNd
InitClient == IdleFs /\ QuietIo /\ IdleVn /\ ClientInit /\ IdleEn /\ IdleNd
InitLife == IdleFs /\ ClientIo /\ IdleVn /\ ClientInit /\ IdleEn /\ IdleNd
InitEntries == IdleFs /\ IdleIo /\ IdleVn /\ IdleCl /\ EntriesInit /\ IdleNd
InitWalk == IdleFs /\ IdleIo /\ IdleVn /\ IdleCl /\ IdleEn /\ WalkInit /\ IdlePs /\ IdleRn
InitTimeout == IdleFs /\ QuietIo /\ IdleVn /\ TimeoutInit /\ IdleEn /\ IdleNd
InitRename == IdleFs /\ IdleIo /\ IdleVn /\ IdleCl /\ IdleEn /\ IdleWk /\ IdlePs /\ RenameInit
InitParse == IdleFs /\ IdleIo /\ IdleVn /\ IdleCl /\ IdleEn /\ IdleWk /\ ParseInit /\ IdleRn

SpecDir == InitFs /\ [][DirNext]_vars

SpecPoll == InitFs /\ [][PollNext]_vars

SpecFs == InitFs /\ [][FsNext]_vars

SpecNodes == InitFs /\ [][NodesNext]_vars

SpecDispatch == InitFs /\ [][DispatchNext]_vars

SpecIngress == InitIngress /\ [][IngressNext]_vars

SpecVarint == InitVarint /\ [][VarintNext]_vars

SpecClient == InitClient /\ [][ClientNext]_vars

SpecLife == InitLife /\ [][LifeNext]_vars

SpecEntries == InitEntries /\ [][EntriesNext]_vars

SpecWalk == InitWalk /\ [][WalkNext]_vars

SpecOdd == InitFs /\ [][OddNext]_vars

SpecParse == InitParse /\ [][ParseNext]_vars

SpecRename == InitRename /\ [][RenameNext]_vars

SpecTimeout == InitTimeout /\ [][TimeoutNext]_vars

\* The worker is a thread of its own and the clock goes on: neither waits
\* for ever when it can step
SpecTimeoutFair == SpecTimeout /\ WF_vars(WorkerStep) /\ WF_vars(Tick)

---------------------------------------------------------------------------
(* Properties of the kernel bridge *)

\* The node a topic names
TopicNode(T) == Split(T)

\* The handles open on a node
HandlesOn(p) == { fh \in DOMAIN handles : handles[fh].node = p }

\* C1 - Round trip of a publish: while the last publish stored under topic T
\* has not been undone by an unlink, the node at /T exists and a READ with
\* offset 0 and any size >= |P| on a handle of that node returns exactly P,
\* with no byte from outside the payload.
C1_PublishRoundTrip ==
  \A T \in DOMAIN stored :
    /\ TopicNode(T) \in DOMAIN tree
    /\ \A fh \in HandlesOn(TopicNode(T)) :
         \A size \in Len(stored[T])..(MaxReadSize + 1) :
           OnFuseReadReply(fh, 0, size) =
             [count |-> Len(stored[T]), data |-> stored[T], oob |-> 0]

\* A READ has just returned the two-byte payload published to a/b
C1_Witness ==
  /\ out.op = "READ" /\ out.data = <<9, 7>> /\ out.oob = 0
  /\ \E T \in DOMAIN stored :
       /\ Len(TopicNode(T)) = 2 /\ stored[T] = <<9, 7>>
       /\ out.fh \in HandlesOn(TopicNode(T))

\* The listing OPENDIR would build for directory p names child exactly once
ListsOnce(p, name) ==
  \A order \in WalkOrders(Children(tree, p)) :
    LET buf == Snapshot(tree, p, order)
    IN /\ Cardinality({ i \in 1..Len(buf) : buf[i].name = name }) = 1
       /\ buf[1].name = Dot /\ buf[2].name = DotDot

\* C2 - Directory emergence: for a stored topic s1/../sn every proper prefix
\* is reported as a directory whose listing holds the next segment exactly
\* once next to "." and "..", and the leaf is reported as a regular file.
C2_DirectoryEmergence ==
  \A T \in DOMAIN stored :
    LET p == TopicNode(T)
    IN /\ \A k \in 0..(Len(p) - 1) :
            /\ GetNodeAttr(tree, SubSeq(p, 1, k)).mode = "S_IFDIR"
            /\ ListsOnce(SubSeq(p, 1, k), p[k + 1])
       /\ GetNodeAttr(tree, p).mode = "S_IFREG"

\* A publish to "a" has been stored while "a" has a child
C2_Witness ==
  /\ out.op = "PUBLISH" /\ out.error = "OK"
  /\ out.topic \in DOMAIN stored
  /\ Children(tree, TopicNode(out.topic)) # {}

\* The part of C2 about the prefixes alone
C2_PrefixesAreDirectories ==
  \A T \in DOMAIN stored :
    LET p == TopicNode(T)
    IN \A k \in 0..(Len(p) - 1) :
         /\ GetNodeAttr(tree, SubSeq(p, 1, k)).mode = "S_IFDIR"
         /\ ListsOnce(SubSeq(p, 1, k), p[k + 1])

\* C3 - READ clamp law: for every handle, offset and size the READ returns
\* max(0, min(size, len - min(offset, len))) bytes, all of them payload bytes.
C3_ReadClampLaw ==
  \A fh \in DOMAIN handles :
    \A offset \in 0..MaxReadOffset, size \in 0..MaxReadSize :
      LET len == Len(tree[handles[fh].node].data)
          r == OnFuseReadReply(fh, offset, size)
      IN /\ r.count = Max(0, Min(size, len - Min(offset, len)))
         /\ r.oob = 0

\* A READ has answered with bytes from outside the payload
C3_Witness == out.op = "READ" /\ out.oob > 0

\* The clamp law for the offsets inside the payload
C3_ReadClampInside ==
  \A fh \in DOMAIN handles :
    \A offset \in 0..MaxReadOffset, size \in 0..MaxReadSize :
      LET data == tree[handles[fh].node].data
          r == OnFuseReadReply(fh, offset, size)
      IN offset <= Len(data) =>
           /\ r.count = Min(size, Len(data) - offset)
           /\ r.data = SubSeq(data, offset + 1, offset + r.count)
           /\ r.oob = 0

\* C4 - Readdir snapshot stability: on every step that changes the tree or
\* the table of directory handles, a directory handle that is open before
\* and after the step answers every READDIR (offset, size) with the same
\* entries.
C4_SnapshotStable ==
  [][(tree' # tree \/ dirh' # dirh) =>
       \A fh \in DOMAIN dirh \cap DOMAIN dirh' :
         /\ dirh'[fh].node = dirh[fh].node
         /\ \A size \in ReaddirSizes :
              \A offset \in ReaddirOffsets(dirh[fh].buffer) :
                ReaddirReply(ReaddirBuffer(fh, dirh[fh].node)', offset, size)
                  = OnFuseReaddirReply(fh, dirh[fh].node, offset, size)]_vars

\* A READDIR has answered from a snapshot that the live directory no longer
\* matches
C4_Witness ==
  /\ out.op = "READDIR" /\ Len(out.ents) >= 2
  /\ out.fh \in DOMAIN dirh
  /\ dirh[out.fh].buffer # ReaddirLive(out.fh, dirh[out.fh].node)

\* C5 - Poll wake-up fan-out: a publish that is stored writes exactly one
\* NOTIFY_POLL for each handle of the node that holds a wake token, carrying
\* that token, and none for any other handle.
C5_WakeFanOut ==
  [][(out'.op = "PUBLISH" /\ out'.error = "OK") =>
       /\ \A fh \in DOMAIN handles :
            Cardinality({ i \in DOMAIN out'.notify : out'.notify[i].fh = fh })
              = IF handles[fh].node = out'.node /\ handles[fh].poll_handle # 0
                THEN 1 ELSE 0
       /\ \A i \in DOMAIN out'.notify :
            /\ out'.notify[i].fh \in DOMAIN handles
            /\ out'.notify[i].kh = handles[out'.notify[i].fh].poll_handle]_vars

\* Scenario S6: two handles on one node polled with distinct tokens, and a
\* publish that has emitted two notifications, one per token
C5_Witness ==
  /\ out.op = "PUBLISH" /\ out.error = "OK" /\ Len(out.notify) = 2
  /\ out.notify[1].fh # out.notify[2].fh
  /\ { out.notify[1].kh, out.notify[2].kh } = 1..2

\* C6 - A wake token is used once: after a publish has emitted NOTIFY_POLL
\* for a handle, that handle's token is cleared.
C6_TokenCleared ==
  (out.op = "PUBLISH" /\ out.error = "OK") =>
    \A i \in DOMAIN out.notify : handles[out.notify[i].fh].poll_handle = 0

---------------------------------------------------------------------------
(* Properties of the broker ingress and of the codec *)

WellFormed == \A i \in DOMAIN expected : expected[i].kind # "raw"

\* The offset in the stream at which frame k ends
RECURSIVE FrameEnd(_)
FrameEnd(k) == IF k = 0 THEN 0 ELSE FrameEnd(k - 1) + Len(expected[k].bytes)

\* The number of frames the bytes read so far hold completely
FramesRead ==
  Cardinality({ k \in DOMAIN expected : FrameEnd(k) <= pos })

\* The callbacks the first k frames of the stream call for
RECURSIVE PublishesOf(_)
PublishesOf(k) ==
  IF k = 0 THEN <<>>
  ELSE IF expected[k].kind = "publish"
       THEN Append(PublishesOf(k - 1),
                   [topic |-> expected[k].topic, payload |-> expected[k].payload,
                    payload_len |-> Len(expected[k].payload)])
       ELSE PublishesOf(k - 1)

\* C7 - Ingress restart: for a stream of complete frames, however the reads
\* have split it, the callbacks made so far are those of the frames read
\* completely, in order, and the bytes kept between reads are exactly the
\* bytes read after the last complete frame.
C7_IngressRestart ==
  WellFormed =>
    /\ callbacks = PublishesOf(FramesRead)
    /\ running => buffer = SubSeq(stream, FrameEnd(FramesRead) + 1, pos)

\* Two publishes in the stream, the reads have stopped inside the second:
\* one callback made, the head of the second frame kept
C7_Witness ==
  /\ Len(expected) = 2
  /\ expected[1].kind = "publish" /\ expected[2].kind = "publish"
  /\ running /\ Len(callbacks) = 1 /\ Len(buffer) > 1
  /\ pos < Len(stream)

\* C8 - Varint round trip: a length up to 268435455 is encoded in 1 to 4
\* bytes, and decoding them yields the length and consumes exactly those
\* bytes; a greater length is rejected with no byte produced.
C8_VarintRoundTrip ==
  /\ vphase \in {"encoded", "decoded"} =>
       /\ vn <= 268435455
       /\ Len(vdigits) \in 1..4
  /\ vphase = "decoded" =>
       /\ vdecoded.status = "Success"
       /\ vdecoded.value = vn
       /\ vdecoded.next - 1 = Len(vdigits)
  /\ vphase = "rejected" => (vn >= 268435456 /\ vdigits = <<>>)

\* The greatest length has gone through both directions, in four bytes
C8_Witness ==
  /\ vphase = "decoded" /\ vn = 268435455
  /\ vdigits = <<255, 255, 255, 127>> /\ vdecoded.value = 268435455

S1Callback == [topic |-> <<97>>, payload |-> <<0, 1, 98>>, payload_len |-> 3]

\* C9 as stated - the eight bytes 30 07 00 01 61 00 01 62 parse to one
\* Success with topic "a" and payload 00 01 62.
C9_ScenarioS1 ==
  (stream = S1Bytes /\ pos = Len(stream)) =>
    /\ outcomes = <<"Success">>
    /\ callbacks = <<S1Callback>>

\* C9 amended - with the length byte 06 the eight bytes parse to one Success
\* with topic "a" and payload 00 01 62, and the cursor advances by exactly
\* eight bytes, whatever follows them.
C9_ScenarioS1Fixed ==
  (Len(stream) >= 8 /\ SubSeq(stream, 1, 8) = S1Fixed) =>
    /\ \A junk \in JunkBytes :
         MqttParseMessage(stream, junk) =
           [status |-> "Success", consumed |-> 8, topic |-> <<97>>,
            payload |-> <<0, 1, 98>>, payload_len |-> 3]
    /\ pos >= 8 =>
         /\ Len(callbacks) >= 1 /\ callbacks[1] = S1Callback
         /\ outcomes[1] = "Success"
    /\ (pos = 8 /\ running) => buffer = <<>>

\* The eight bytes with length 06 have been read and delivered
C9_Witness ==
  /\ stream = S1Fixed /\ pos = 8
  /\ callbacks = <<S1Callback>> /\ outcomes = <<"Success">> /\ buffer = <<>>

\* C10 - Non-publish frames are skipped: in a stream of complete frames each
\* frame read completely has produced Skipped when it is no PUBLISH and
\* Success when it is one, only the PUBLISH frames have produced a callback,
\* and the parser advances over a non-publish frame by exactly its length.
C10_NonPublishSkipped ==
  WellFormed =>
    /\ outcomes = [k \in 1..FramesRead |->
                     IF expected[k].kind = "publish" THEN "Success" ELSE "Skipped"]
    /\ Len(callbacks) =
         Cardinality({ k \in 1..FramesRead : expected[k].kind = "publish" })
    /\ \A k \in DOMAIN expected :
         expected[k].kind = "other" =>
           \A junk \in JunkBytes :
             LET m == MqttParseMessage(
                        SubSeq(stream, FrameEnd(k - 1) + 1, Len(stream)), junk)
             IN m.status = "Skipped" /\ m.consumed = Len(expected[k].bytes)

\* Scenario S2: the CONNACK skipped, then the publish of "y" to "x"
C10_Witness ==
  /\ stream = S2Bytes /\ pos = Len(stream)
  /\ outcomes = <<"Skipped", "Success">>
  /\ callbacks = <<[topic |-> <<120>>, payload |-> <<121>>, payload_len |-> 1]>>

---------------------------------------------------------------------------
(* Insert-payload: conflicts and failures *)

FileA == <<NameA>>
TopicAB == NameA \o <<Slash>> \o NameB

PublishStep(topic) == out'.op = "PUBLISH" /\ out'.topic = topic

\* C19: a publish to a/b while a is a file fails with NotDirectory, a
\* publish to a while a is a directory fails with IsDirectory, and in both
\* cases the tree is left as it was.
C19_InsertConflicts ==
  [][ /\ FileA \in DOMAIN tree
      /\ \/ PublishStep(TopicAB) /\ ~IsDirectory(tree, FileA)
         \/ PublishStep(NameA) /\ IsDirectory(tree, FileA)
      => out'.error # "OK" /\ tree' = tree ]_vars

\* A file that has been given a child, or a directory that has been given
\* a payload, by a publish that was not refused
C19_Witness ==
  /\ out.op = "PUBLISH" /\ out.error = "OK"
  /\ FileA \in DOMAIN tree
  /\ Children(tree, FileA) # {}
  /\ tree[FileA].data # <<>>

\* C20: when storing a published payload fails at any depth, the nodes the
\* call created are gone again and the tree equals the tree before the call.
C20_AtomicOnFailure ==
  [][ out'.op = "PUBLISH" /\ out'.error = "FAILED" => tree' = tree ]_vars

\* A publish to a/b has failed below a node that existed before: a still
\* has its payload and the child the call was to create is not in the tree
C20_Witness ==
  /\ out.op = "PUBLISH" /\ out.error = "FAILED" /\ out.topic = TopicAB
  /\ FileA \in DOMAIN tree
  /\ tree[FileA].data # <<>>
  /\ Children(tree, FileA) = {}
---------------------------------------------------------------------------
(* Properties of the broker client *)

PublishPackets(w) == SelectSeq(w, IsPublishPacket)

BytesOf(w) == [i \in DOMAIN w |-> w[i].bytes]

\* Only the WRITE of scenario S4 has been accepted: HELLO is what the
\* entry of /a/b holds, and the one message handed to MqttPublish
S4Only ==
  /\ TopicAB \in DOMAIN entry
  /\ entry[TopicAB].data = Hello
  /\ Len(accepted) = 1
  /\ accepted[1].payload = Hello

\* C11 as the scenario states it, with 09 for the remaining length
C11_ScenarioS4 ==
  S4Only =>
    BytesOf(PublishPackets(wire))
      \in { <<>>, << <<48, 9, 0, 3, 97, 47, 98, 72, 69, 76, 76, 79>> >> }

\* C11 - Scenario S4 with the remaining length the frame has: a WRITE of
\* HELLO to /a/b puts at most one PUBLISH frame on the broker socket, the
\* bytes 30 0A 00 03 'a/b' 'HELLO' (0A = 2 + 3 + 5), and while the message
\* waits in the queue of a sleeping worker it is not overdue.
C11_ScenarioS4Fixed ==
  S4Only =>
    /\ BytesOf(PublishPackets(wire))
         \in { <<>>, << <<48, 10, 0, 3, 97, 47, 98, 72, 69, 76, 76, 79>> >> }
    /\ messages # <<>> /\ wphase = "polling" /\ pipe = 0 => now <= accepted[1].due

\* The frame of S4 is on the wire, written when its holdback had passed
C11_Witness ==
  /\ S4Only
  /\ holdback > 0
  /\ Len(PublishPackets(wire)) = 1
  /\ cout.op = "IoThread"

\* The keep-alive interval in milliseconds
PingInterval == keepalive * 1000 - kPingThreshold

C13_HoldbackFifo ==
  LET p == PublishPackets(wire)
  IN \A j \in 1..Len(p) :
       /\ p[j].id \in 1..Len(accepted)
       /\ p[j].bytes = SendPublishMessage(accepted[p[j].id].topic,
                                          accepted[p[j].id].payload)
       /\ p[j].at >= accepted[p[j].id].due
       /\ \A i \in 1..(j - 1) : p[i].id < p[j].id

\* A partial drain has happened: the head of the queue is an entry whose
\* message was sent and freed
C13_Witness ==
  /\ messages # <<>>
  /\ ~messages[1].live
  /\ Len(PublishPackets(wire)) = 1

AllLive(msgs) == \A i \in 1..Len(msgs) : msgs[i].live

ValidConnAck(bytes) == Len(bytes) = 4 /\ bytes[1] = 32 /\ bytes[4] = 0

\* An acknowledgement of SUBSCRIBE: five bytes, type SUBACK, packet id 1,
\* return code 0
ValidSubAck(bytes) ==
  Len(bytes) = 5 /\ bytes[1] = 144 /\ bytes[3] = 0 /\ bytes[4] = 1 /\ bytes[5] = 0

\* The handshake in the order it has to be made
HandshakeOrder == <<"CONNECT", "CONNACK", "SUBSCRIBE", "SUBACK", "THREAD">>

WithoutDisconnect(steps) == SelectSeq(steps, LAMBDA x : x # "DISCONNECT")

\* C15: MqttCreate writes CONNECT, reads CONNACK, writes SUBSCRIBE for +/#,
\* reads SUBACK, in that order, and stops at the first step that fails; the
\* worker is started and a client returned only after both acknowledgements
\* were valid; on a failure no client is returned and no worker started,
\* and after a CONNACK that is not valid no SUBSCRIBE is written.
C15_HandshakeOrder ==
  cout.op = "MqttCreate" =>
    /\ IsPrefix(WithoutDisconnect(cout.steps), HandshakeOrder)
    /\ \A j \in 1..Len(wire) :
         /\ wire[j].bytes = ConnectMessage(keepalive) => j = 1
         /\ wire[j].bytes = SubscribeMessage =>
              j = 2 /\ wire[1].bytes = ConnectMessage(keepalive)
    /\ cout.result =>
         /\ ValidConnAck(cout.connack) /\ ValidSubAck(cout.suback)
         /\ BytesOf(wire) = <<ConnectMessage(keepalive), SubscribeMessage>>
         /\ cout.steps = HandshakeOrder
         /\ cphase = "live" /\ wphase = "started" /\ running
    /\ ~cout.result =>
         /\ cphase = "failed" /\ wphase = "none" /\ ~running
         /\ \A j \in 1..Len(cout.steps) : cout.steps[j] # "THREAD"
    /\ ~(ValidConnAck(cout.connack) /\ ValidSubAck(cout.suback)) => ~cout.result
    /\ ~ValidConnAck(cout.connack) =>
         \A j \in 1..Len(wire) : wire[j].bytes # SubscribeMessage

\* MqttCreate has returned a client after a complete handshake
C15_Witness ==
  /\ cout.op = "MqttCreate" /\ cout.result
  /\ BytesOf(wire) = <<ConnectMessage(keepalive), SubscribeMessage>>

\* After a client was returned, DISCONNECT is on the wire
Disconnected ==
  \E j \in 1..Len(wire) : wire[j].bytes = DisconnectMessage

\* C16: MqttDestroy first stops the worker and waits for it, then writes
\* DISCONNECT, then frees the queue: DISCONNECT is the last packet on the
\* wire, it is written only when the worker has left its loop, and what is
\* still queued then is freed and never sent.
C16_ShutdownOrder ==
  /\ [](/\ \A j \in 1..Len(wire) :
             wire[j].bytes = DisconnectMessage => j = Len(wire)
        /\ cphase = "stopping" => ~running /\ ~Disconnected
        /\ cphase \in {"live", "aborted"} => ~Disconnected
        /\ cphase = "destroyed" =>
             wphase = "exited" /\ ~running /\ messages = <<>>)
  /\ [][/\ cphase = "stopping" /\ cphase' = "destroyed" =>
             /\ wphase = "exited"
             /\ PublishPackets(wire') = PublishPackets(wire)
             /\ messages' = <<>>
        /\ cphase = "destroyed" => wire' = wire /\ cphase' = "destroyed"]_vars

\* The client was destroyed with a message in its queue: DISCONNECT is on
\* the wire and the message is not
C16_Witness ==
  /\ cphase = "destroyed"
  /\ Len(accepted) = 1
  /\ PublishPackets(wire) = <<>>
  /\ Len(wire) = 3 /\ wire[3].bytes = DisconnectMessage

\* Why the worker leaves its loop on an error: the broker closed the
\* socket, the parser reported Error, a PUBLISH or a PINGREQ was not
\* written in full, the clock could not be read
FatalCauses == { "closed", "parser", "publish", "ping", "clock" }

\* C17: after a zero-byte read, a parser Error, a failed PUBLISH or PINGREQ
\* write or a failed clock read the worker has left its loop and cleared
\* the flag, the client itself stays; from then on every MqttPublish
\* returns false and enqueues nothing, and the worker never runs again.
C17_FatalErrors ==
  /\ [](/\ cout.op = "IoThread" /\ cout.fatal \in FatalCauses =>
             wphase = "exited" /\ ~running /\ cphase \in {"live", "stopping"}
        /\ wphase = "exited" => ~running)
  /\ [][/\ ~running /\ cphase = "live" /\ cout'.op = "MqttPublish" =>
             ~cout'.result /\ messages' = messages /\ accepted' = accepted
        /\ wphase = "exited" =>
             /\ wphase' = "exited" /\ ~running'
             /\ PublishPackets(wire') = PublishPackets(wire)
             /\ SelectSeq(wire', IsPing) = SelectSeq(wire, IsPing)]_vars

\* The worker has gone after the broker closed the socket, and a publish
\* attempt has been refused
C17_Witness ==
  /\ cphase = "live" /\ wphase = "exited" /\ ~running
  /\ stream = <<>>
  /\ cout.op = "MqttPublish" /\ ~cout.result
  /\ messages = <<>> /\ accepted = <<>>

\* ---------------------------------------------------------------------
\* Properties of the entries under concurrent handlers
\* ---------------------------------------------------------------------

\* The place of a payload in the order of the stores, 0 for what was never
\* stored
StoreIndex(data) ==
  IF \E k \in 1..Len(stores) : stores[k] = data
  THEN CHOOSE k \in 1..Len(stores) : stores[k] = data
  ELSE 0

\* C18: with MqttfsWrite, MqttfsRead and OnMqttMessage on different
\* threads, a READ returns one whole stored payload with its own size (or
\* nothing, before anything was stored); it never returns a payload older
\* than what was stored when it was called, its caller's own WRITE
\* included; and of two READs one after the other the second does not
\* return an older payload than the first.
C18_PerNodeOrdering ==
  \A i \in 1..Len(reads) :
    /\ reads[i].ret = -ENOENT => reads[i].start = 0
    /\ reads[i].ret >= 0 =>
         /\ reads[i].ret = Len(reads[i].out)
         /\ \/ reads[i].out = <<>> /\ reads[i].start = 0
            \/ StoreIndex(reads[i].out) > 0
         /\ StoreIndex(reads[i].out) >= reads[i].start
         /\ \A j \in 1..reads[i].seen :
              reads[j].ret >= 0 =>
                StoreIndex(reads[j].out) <= StoreIndex(reads[i].out)

\* Two READs one after the other, both called after a store, have returned
\* two payloads
C18_Witness ==
  /\ Len(reads) = 2 /\ reads[2].seen = 1
  /\ reads[1].start >= 1 /\ reads[1].ret > 0 /\ reads[2].ret > 0
  /\ reads[1].out # reads[2].out

\* ---------------------------------------------------------------------
\* Properties of the requests that create and remove nodes
\* ---------------------------------------------------------------------

\* The step is a MKDIR or a CREATE of name under node
CreateStep(node, name) ==
  \E failAt \in 0..2 : OnFuseMkdir(AnyUnique, node, name, failAt) \/ OnFuseCreate(AnyUnique, node, name, failAt)

\* C21: MKDIR or CREATE with a name the parent already has replies EEXIST
\* and changes neither the tree nor the handles; with a fresh name, when it
\* succeeds, exactly the new child is added, without payload and without
\* children, and CREATE opens exactly one new handle on it while MKDIR
\* opens none.
C21_CreateEmpty ==
  [][\A node \in DOMAIN tree, name \in Names :
       CreateStep(node, name) =>
         LET child == Append(node, name)
         IN IF child \in DOMAIN tree
            THEN out'.error = "EEXIST" /\ tree' = tree /\ handles' = handles
            ELSE /\ out'.error # "EEXIST"
                 /\ out'.error = "OK" =>
                      /\ out'.node = child
                      /\ DOMAIN tree' = DOMAIN tree \cup {child}
                      /\ \A q \in DOMAIN tree : tree'[q] = tree[q]
                      /\ tree'[child].data = <<>>
                      /\ Children(tree', child) = {}
                      /\ \A h \in DOMAIN handles :
                           h \in DOMAIN handles' /\ handles'[h] = handles[h]
                      /\ IF out'.op = "CREATE"
                         THEN /\ DOMAIN handles' = DOMAIN handles \cup {out'.fh}
                              /\ out'.fh \notin DOMAIN handles
                              /\ handles'[out'.fh].node = child
                              /\ tree'[child].handles = <<out'.fh>>
                              /\ GetNodeAttr(tree', child).mode = "S_IFREG"
                         ELSE /\ handles' = handles
                              /\ tree'[child].handles = <<>>
                              /\ GetNodeAttr(tree', child).mode = "S_IFDIR"]_vars

\* A CREATE of "a" has been refused with EEXIST while "a" holds a payload
C21_Witness ==
  /\ out.op = "CREATE" /\ out.error = "EEXIST"
  /\ <<NameA>> \in DOMAIN tree /\ tree[<<NameA>>].data # <<>>
  /\ <<NameA, NameB>> \notin DOMAIN tree

\* C22: UNLINK or RMDIR of a child replies 0 and takes that child and all
\* below it out of the tree, every other node staying as it was; of a name
\* that is not a child it replies ENOENT and leaves the tree as it was; and
\* a LOOKUP replies ENOENT exactly for the names that are not in the tree,
\* so for a removed name until it is created again.
C22_Remove ==
  [][\A node \in DOMAIN tree, name \in Names :
       LET child == Append(node, name)
       IN /\ OnFuseUnlink(AnyUnique, node, name) =>
               IF child \in DOMAIN tree
               THEN /\ out'.error = "OK"
                    /\ DOMAIN tree' = { q \in DOMAIN tree : ~IsPrefix(child, q) }
                    /\ \A q \in DOMAIN tree' : tree'[q] = tree[q]
               ELSE out'.error = "ENOENT" /\ tree' = tree /\ handles' = handles
          /\ OnFuseLookup(AnyUnique, node, name) =>
               /\ out'.error = "ENOENT" <=> child \notin DOMAIN tree
               /\ out'.error = "OK" => out'.node = child]_vars

\* "a" has been removed together with "a/b" while its sibling "b" holds a
\* payload and stays
C22_Witness ==
  /\ out.op = "UNLINK" /\ out.error = "OK"
  /\ DOMAIN tree = {ROOT, <<NameB>>}
  /\ tree[<<NameB>>].data # <<>>
  /\ \A T \in DOMAIN stored : T = NameB

\* ---------------------------------------------------------------------
\* Properties of POLL
\* ---------------------------------------------------------------------

\* The step is a POLL on handle fh
PollStep(fh) ==
  \E kh \in 1..MaxPollHandle, schedule \in BOOLEAN, events \in SUBSET {"POLLIN", "POLLOUT"} :
    OnFusePoll(AnyUnique, fh, kh, schedule, events)

\* C23: the revents of every POLL reply include POLLOUT, whatever events
\* the request asked for.
C23_PollWritable ==
  out.op = "POLL" => "POLLOUT" \in out.revents

\* A POLL has been answered without POLLOUT
C23_Witness ==
  out.op = "POLL" /\ "POLLOUT" \notin out.revents

\* C24: a POLL reports POLLIN exactly when the updated flag of its handle
\* is set at the time of the request, the flag is clear afterwards, and the
\* flags of the other handles are as before.
C24_EdgeTriggered ==
  [][\A fh \in DOMAIN handles :
       PollStep(fh) =>
         /\ "POLLIN" \in out'.revents <=> handles[fh].updated
         /\ ~handles'[fh].updated
         /\ \A g \in DOMAIN handles \ {fh} :
              handles'[g].updated = handles[g].updated]_vars

\* A POLL that did not ask for POLLIN has been answered without POLLIN on
\* a handle whose updated flag is set, and the flag is still set
C24_Witness ==
  /\ out.op = "POLL" /\ "POLLIN" \notin out.revents
  /\ out.fh \in DOMAIN handles /\ handles[out.fh].updated

\* C25: a publish that is stored sets updated on every handle open on the
\* node, whether or not the handle holds a wake token.
C25_PublishMarksAll ==
  [][(out'.op = "PUBLISH" /\ out'.error = "OK") =>
       \A fh \in DOMAIN handles :
         handles[fh].node = out'.node => handles'[fh].updated]_vars

\* A publish has been stored on a node with an open handle that was never
\* polled, and the handle's updated flag is clear
C25_Witness ==
  /\ out.op = "PUBLISH" /\ out.error = "OK"
  /\ \E fh \in DOMAIN handles :
       /\ handles[fh].node = out.node
       /\ handles[fh].poll_handle = 0 /\ ~handles[fh].updated

---------------------------------------------------------------------------
(* Properties of the dispatch of requests                                  *)

\* The opcode is outside the handler table or names an empty slot of it
NoHandler(opcode) ==
  opcode \notin DOMAIN fuse_request_handlers \/ fuse_request_handlers[opcode] = ""

\* C26: a request whose opcode has no handler is answered with one status
\* reply ENOSYS that carries the request's unique id, and leaves the tree,
\* the handles and the directory handles as they were; FORGET writes no
\* reply and changes nothing; every other request is answered with one
\* reply that carries the request's unique id.
C26_Dispatch ==
  [][\A opcode \in Opcodes, unique \in Uniques :
       IF NoHandler(opcode)
       THEN FuseContextHandle(opcode, unique) =>
              /\ out' = [NoReply EXCEPT !.unique = unique, !.op = "UNKNOWN",
                                        !.error = "ENOSYS"]
              /\ UNCHANGED <<tree, handles, dirh>>
       ELSE IF fuse_request_handlers[opcode] = "OnFuseForget"
       THEN FuseContextHandle(opcode, unique) =>
              /\ out' = NoReply
              /\ UNCHANGED <<tree, handles, dirh>>
       ELSE \/ /\ out'.op \notin {"none", "UNKNOWN", "PUBLISH"}
               /\ out'.notify = <<>>
               /\ out'.unique = unique
            \/ ~FuseContextHandle(opcode, unique)]_vars

\* An unknown opcode was answered while a file was open
C26_Witness ==
  /\ out.op = "UNKNOWN"
  /\ out.error = "ENOSYS"
  /\ out.unique = MaxUnique
  /\ handles # <<>>


---------------------------------------------------------------------------
(* Properties of WRITE                                                     *)

\* What the claim says an accepted WRITE of buf to path leaves behind
WriteReplaced(path, buf) ==
  /\ cout'.ret = Len(buf)
  /\ EntryKey(path) \in DOMAIN entry'
  /\ entry'[EntryKey(path)] = [data |-> buf, size |-> Len(buf)]
  /\ accepted' = Append(accepted, [topic |-> WriteTopic(path), payload |-> buf,
                                   at |-> now, due |-> now + holdback])
  /\ Len(messages') = Len(messages) + 1

\* C27: a WRITE of the bytes B at any offset, zero or not, that meets no
\* failure of its own is accepted: the file's payload is exactly B, the
\* reply is |B|, and one publish of B for the file's topic is queued.
C27_WriteAnyOffset ==
  [][\A in \in PublishInputs, offset \in WriteOffsets :
       (running /\ MqttfsWrite(<<Slash>> \o in.topic, in.payload, offset, "none"))
         => WriteReplaced(<<Slash>> \o in.topic, in.payload)]_vars

\* A WRITE to a file that has a payload was turned down for its offset
C27_Witness ==
  /\ cout.op = "MqttfsWrite"
  /\ cout.ret = -EINVAL
  /\ EntryKey(cout.topic) \in DOMAIN entry


---------------------------------------------------------------------------
(* Properties of READDIR                                                   *)

\* The bytes of a reply that starts at offset: its last entry ends at off
ReplyBytes(ents, offset) ==
  IF ents = <<>> THEN 0 ELSE ents[Len(ents)].off - offset

\* C28: a READDIR at an entry boundary of the snapshot returns the longest
\* run of whole, consecutive snapshot entries from that boundary whose
\* total length is at most size: the reply is never longer than size, and
\* it stops short of the end of the snapshot only when the next entry
\* would not fit any more.
C28_ReaddirSizeLimit ==
  [][\A fh \in DOMAIN dirh, size \in ReaddirSizes :
       \A offset \in ReaddirOffsets(dirh[fh].buffer) :
         OnFuseReaddir(AnyUnique, fh, offset, size) =>
           LET buf == dirh[fh].buffer
               ents == out'.ents
               bytes == ReplyBytes(ents, offset)
               first == EntryAt(buf, offset)
               after == first + Len(ents)
           IN /\ bytes <= size
              /\ ents = <<>> \/ ents = SubSeq(buf, first, after - 1)
              /\ offset + bytes < BufferSize(buf) =>
                   bytes + FuseDirentSize(buf[after].namelen) > size]_vars

\* A READDIR was answered with the whole of a snapshot of three entries
C28_Witness ==
  /\ out.op = "READDIR"
  /\ out.fh \in DOMAIN dirh
  /\ Len(out.ents) = 3
  /\ out.ents = dirh[out.fh].buffer


---------------------------------------------------------------------------
(* Properties of the partial drain                                         *)

\* C29: a drain that sends the first k of n queued messages, 0 < k < n,
\* leaves in the queue exactly the n - k messages it did not send, with
\* their topic, payload and due time, in their order; the k messages sent
\* are in the queue no more.
C29_PartialDrain ==
  [][LET k == Len(PublishPackets(wire')) - Len(PublishPackets(wire))
         n == Len(messages)
     IN (AllLive(messages) /\ 0 < k /\ k < n) =>
          messages' = SubSeq(messages, k + 1, n)]_vars

\* The first of two queued messages was sent, and the one entry left in
\* the queue is that of the message sent
C29_Witness ==
  /\ Len(accepted) = 2
  /\ Len(PublishPackets(wire)) = 1
  /\ Len(messages) = 1
  /\ messages[1].id = 1


---------------------------------------------------------------------------
(* Properties of the handles of removed nodes                              *)

\* C30: a handle that is open stays open, on the node it was opened on and
\* with that node in the tree, through every request and publish other
\* than its own RELEASE; UNLINK and RMDIR of its node or of a node above
\* free neither the handle nor the node it reads from.
C30_HandleValidity ==
  [][\A fh \in DOMAIN handles :
       \/ OnFuseRelease(AnyUnique, fh)
       \/ /\ fh \in DOMAIN handles'
          /\ handles'[fh].node = handles[fh].node
          /\ handles[fh].node \in DOMAIN tree']_vars

\* An UNLINK has been answered with 0 and of two handles the one opened
\* first is gone
C30_Witness ==
  /\ out.op = "UNLINK"
  /\ out.error = "OK"
  /\ DOMAIN handles = {2}


\* ---------------------------------------------------------------------
\* C31  The order of a listing
\* ---------------------------------------------------------------------

\* The names of seq are each before the next by strcmp
StrictlyAscending(seq) ==
  \A i \in 1..(Len(seq) - 1) : Strcmp(seq[i], seq[i + 1]) < 0

\* The tree is a search tree over the inserted names: the visits between
\* the subtrees are in ascending order and take every key once
SubsWellFormed ==
  LET between == SelectSeq(Twalk(subs, subs.root),
                           LAMBDA v : VisitInOrder(v.which))
      names == [i \in 1..Len(between) |-> between[i].key]
  IN /\ StrictlyAscending(names)
     /\ { names[i] : i \in 1..Len(names) } = SubsKeys(subs)
     /\ Len(names) = Cardinality(SubsKeys(subs))

\* C31: whatever names were inserted and in whatever order, a walk of the
\* directory hands its callback every child once, in ascending byte order
\* of the names.
C31_ListingOrder ==
  [][NodeForEach =>
       /\ StrictlyAscending(visited')
       /\ { visited'[i] : i \in 1..Len(visited') } = SubsKeys(subs)
       /\ Len(visited') = Cardinality(SubsKeys(subs))]_vars

\* A walk of "b" and its left child "a", "b" inserted first
C31_Witness ==
  /\ subs.root = <<98>>
  /\ SubsKeys(subs) = { <<97>>, <<98>> }
  /\ visited = << <<98>>, <<97>> >>

\* ---------------------------------------------------------------------
\* C32  The kind of a node
\* ---------------------------------------------------------------------

\* C32: while a node stays in the tree the kind reported for it (S_IFDIR
\* or S_IFREG in its attributes) is the one it was created with, whatever
\* is published or requested, and a node reported as a directory has no
\* open file handle.
C32_KindFixed ==
  [][\A p \in (DOMAIN tree \cap DOMAIN tree') \ {ROOT} :
       /\ GetNodeAttr(tree', p).mode = GetNodeAttr(tree, p).mode
       /\ GetNodeAttr(tree', p).mode = "S_IFDIR" => HandlesOn(p)' = {}]_vars

\* a is reported as a regular file, holds a payload and no child, and the
\* last request removed its child a/b
C32_Witness ==
  /\ out.op = "UNLINK" /\ out.error = "OK"
  /\ FileA \in DOMAIN tree
  /\ Children(tree, FileA) = {}
  /\ GetNodeAttr(tree, FileA).mode = "S_IFREG"

\* ---------------------------------------------------------------------
\* C33  The names of the nodes
\* ---------------------------------------------------------------------

\* The name of the node at path p: the last component
NodeName(p) == p[Len(p)]

\* C33: whatever topics are published, a leading slash, a trailing slash
\* and an empty segment included, and whatever is created by MKDIR and
\* CREATE, every node but the root has a name that is not empty and holds
\* no '/'.
C33_NamesWellFormed ==
  \A p \in DOMAIN tree \ {ROOT} :
    /\ NodeName(p) # <<>>
    /\ \A i \in 1..Len(NodeName(p)) : NodeName(p)[i] # Slash

\* "/a" has been published and stored
C33_Witness ==
  /\ out.op = "PUBLISH" /\ out.error = "OK"
  /\ out.topic = <<Slash>> \o NameA
  /\ (<<Slash>> \o NameA) \in DOMAIN stored

\* ---------------------------------------------------------------------
\* C34  The outcomes of the parser and its cursor
\* ---------------------------------------------------------------------

\* The index of the last digit of the length of the frame at the head of
\* buf: the first byte after the type byte without the continuation bit,
\* among at most four; 0 when there is none
LengthEnd(buf) ==
  LET ends == { i \in 2..Min(5, Len(buf)) :
                  buf[i] < 128 /\ \A j \in 2..(i - 1) : buf[j] >= 128 }
  IN IF ends = {} THEN 0 ELSE CHOOSE i \in ends : TRUE

\* The remaining length the digits 2..last stand for
RECURSIVE LengthValue(_, _)
LengthValue(buf, last) ==
  IF last < 2 THEN 0
  ELSE LengthValue(buf, last - 1) + (buf[last] % 128) * (128 ^ (last - 2))

\* The first frame of buf is whole: type byte, length and body
FrameWhole(buf) ==
  /\ LengthEnd(buf) # 0
  /\ Len(buf) - LengthEnd(buf) >= LengthValue(buf, LengthEnd(buf))

\* Four digits, every one with the continuation bit
FourContinued(buf) == Len(buf) >= 5 /\ LengthEnd(buf) = 0

\* The topic length the parser reads behind the length of a whole PUBLISH
\* frame is larger than the remaining length
TopicTooLong(buf, junk) ==
  /\ FrameWhole(buf)
  /\ buf[1] \div 16 = 3
  /\ ByteAt(buf, LengthEnd(buf) + 1, junk) * 256
       + ByteAt(buf, LengthEnd(buf) + 2, junk) > LengthValue(buf, LengthEnd(buf))

\* C34: a call of MqttParseMessage on less than a whole frame returns
\* ReadMore; on a length of four continued digits, or on a topic length
\* above the remaining length, it returns Error; ReadMore and Error leave
\* pointer and size as passed in, Success and Skipped advance them by the
\* one frame at the head: type byte, length digits and body.
C34_ParserCursor ==
  parse_out # NotCalled =>
    /\ ~FrameWhole(parse_in) /\ ~FourContinued(parse_in)
         => parse_out.status = "ReadMore"
    /\ FourContinued(parse_in) \/ TopicTooLong(parse_in, parse_junk)
         => parse_out.status = "Error"
    /\ parse_out.status \in { "ReadMore", "Error" } => parse_out.consumed = 0
    /\ parse_out.status \in { "Success", "Skipped" }
         => /\ FrameWhole(parse_in)
            /\ parse_out.consumed
                 = LengthEnd(parse_in) + LengthValue(parse_in, LengthEnd(parse_in))

\* Error on a PUBLISH with four continued length digits, nothing consumed
C34_Witness ==
  /\ parse_in = <<48, 128, 128, 128, 128>>
  /\ parse_out.status = "Error"
  /\ parse_out.consumed = 0

\* ---------------------------------------------------------------------
\* C36  The slices of a publish
\* ---------------------------------------------------------------------

\* C36: when MqttParseMessage returns Success for a frame of remaining
\* length L, the topic length t and the payload length p it reports
\* satisfy 2 + t + p = L with p not wrapped around, so that topic and
\* payload lie within the L body bytes; a PUBLISH with L < 2 or with
\* t + 2 > L is not a Success.
C36_SlicesInside ==
  parse_out.status = "Success" =>
    LET L == LengthValue(parse_in, LengthEnd(parse_in))
        t == Len(parse_out.topic)
        p == parse_out.payload_len
    IN /\ L >= 2
       /\ t + 2 <= L
       /\ 2 + t + p = L

\* Success for a PUBLISH of remaining length 2 whose topic length is 1
C36_Witness ==
  /\ parse_in = <<48, 2, 0, 1>>
  /\ parse_out.status = "Success"
  /\ Len(parse_out.topic) = 1
  /\ parse_out.payload_len = SizeModulus - 1

\* ---------------------------------------------------------------------
\* C35  The time the worker waits
\* ---------------------------------------------------------------------

\* The longest keep-alive in milliseconds
MaxTimeout == 65535000

\* C35: whenever the worker goes into its wait, under any keep-alive and
\* holdback, the time it passes is above 0 and at most 65,535,000 ms: the
\* wait ends after now and no later than now + 65,535,000.
C35_WaitTime ==
  [][cout'.op = "IoThread" /\ wphase' = "polling"
       => now < deadline' /\ deadline' <= now + MaxTimeout]_vars

\* The worker is in its wait under keep-alive 0, a ping written last
C35_Witness ==
  /\ keepalive = 0
  /\ wphase = "polling"
  /\ cout.op = "IoThread"
  /\ Len(wire) > 0 /\ IsPing(wire[Len(wire)])

\* ---------------------------------------------------------------------
\* C37, C38  Rename
\* ---------------------------------------------------------------------

\* The last call was MqttfsRename(from, to, flags)
RenameStep == rn_out'.op = "RENAME" /\ rn_out'.calls = rn_out.calls + 1

\* C37: a rename with RENAME_EXCHANGE of two files of which one has a
\* poll handle stored is refused: it returns an error, both files are as
\* before and nothing is published.
C37_ExchangePolled ==
  [][ /\ RenameStep
      /\ rn_out'.flags = RENAME_EXCHANGE
      /\ rn_out'.locked
      /\ rn_out'.from \in DOMAIN nodes /\ rn_out'.to \in DOMAIN nodes
      /\ ~nodes[rn_out'.from].is_dir /\ ~nodes[rn_out'.to].is_dir
      /\ nodes[rn_out'.from].ph \/ nodes[rn_out'.to].ph
      => /\ rn_out'.ret # 0
         /\ nodes' = nodes
         /\ rn_out'.published = <<>> ]_vars

\* An exchange of a and b, both with a poll handle, has returned 0 with
\* the payload of a published to the topic of b
C37_Witness ==
  /\ rn_out.op = "RENAME" /\ rn_out.flags = RENAME_EXCHANGE /\ rn_out.ret = 0
  /\ rn_out.from = <<NameA>> /\ rn_out.to = <<NameB>>
  /\ rn_out.published = << [topic |-> <<NameB>>, payload |-> <<7>>] >>
  /\ nodes[<<NameA>>].ph /\ nodes[<<NameB>>].ph
  /\ nodes[<<NameB>>].data = <<7>>

\* C38: when MqttfsRename returns an error, whichever, the nodes, their
\* names, kinds, payloads and children are what they were before the
\* call, and no node made for the target is left in the tree.
C38_FailedRename ==
  [][RenameStep /\ rn_out'.ret # 0 => nodes' = nodes]_vars

\* A rename of the file a to the free name b has failed with EIO in the
\* publish, after the node for b was inserted
C38_Witness ==
  /\ rn_out.op = "RENAME" /\ rn_out.ret = -EIO /\ rn_out.locked
  /\ rn_out.flags = RENAME_NOREPLACE
  /\ rn_out.from = <<NameA>> /\ rn_out.to = <<NameB>>
  /\ <<NameA>> \in DOMAIN nodes /\ ~nodes[<<NameA>>].is_dir /\ ~nodes[<<NameA>>].ph
  /\ <<NameB>> \notin DOMAIN nodes

\* ---------------------------------------------------------------------
\* C39  No message is left in the queue
\* ---------------------------------------------------------------------

\* The publish accepted as number id is on the wire
Written(id) ==
  \E j \in 1..Len(wire) : IsPublishPacket(wire[j]) /\ wire[j].id = id

\* C39: with the worker running and the socket taking every write, a
\* message that MqttPublish accepted is written to the broker once it is
\* due, under every keep-alive and holdback and with no further publish
\* or byte from the broker.
C39_NoStuckMessage ==
  \A id \in 1..MaxPublishes :
    (Len(accepted) >= id /\ now >= accepted[id].due)
      ~> (Written(id) \/ wphase = "exited")

\* A message is due, not written, and the worker sleeps without limit
C39_Witness ==
  /\ Len(accepted) >= 1 /\ now >= accepted[1].due
  /\ ~Written(1)
  /\ wphase = "polling" /\ pipe = 0 /\ deadline = Int64Max
  /\ now = MaxClock

\* ---------------------------------------------------------------------
\* C40  The discipline of the locks
\* ---------------------------------------------------------------------

===========================================================================
